---- MODULE Spec2Model ----
(***************************************************************************)
(* State-machine model of the S-Force gameplay core (src/src/game).        *)
(*                                                                         *)
(* Time is measured in units of 1/600 s, so that the fixed timestep        *)
(* (1/120 s, config.rs) and every duration of the code scaled by a         *)
(* difficulty factor (x1.25, x0.8) is an integer.  Factors that the code   *)
(* keeps as f32 are kept in hundredths (0.9 -> 90, 1.15 -> 115).           *)
(*                                                                         *)
(* Entities live in sequences (the iteration order of a query).  Commands  *)
(* are deferred as in Bevy: a despawn or spawn issued by a system is       *)
(* queued and takes effect at the next synchronisation point, which may    *)
(* come between any two systems of a tick and always comes at its end.     *)
(* Systems of a tick that have no ordering constraint run in any order,    *)
(* each once per tick.                                                     *)
(***************************************************************************)
EXTENDS Integers, Sequences, FiniteSets, TLC

\* ------------------------------------------------------------------ bounds
MaxEnemies == 2
MaxBullets == 2
MaxShots == 1
MaxDamage == 2
MaxFired == 3
MaxCoord == 1
\* The model's fixed timestep.  The code's is 5 units (1/120 s, config.rs);
\* every handler reads it only through time.delta(), and the model takes a
\* coarser step so that a window of 1.6 s passes in a few ticks.
FixedDelta == 320
\* no wave is fired once the difficulty accumulator (hundredths) is here
MaxDifficulty == 130

\* ------------------------------------------------------- program constants
UnitsPerSecond == 600
PLAYER_HIT_INVULNERABILITY == (16 * UnitsPerSecond) \div 10
BASE_INTERVAL == (36 * UnitsPerSecond) \div 10
BossMaxHealth == 200
BossSpawnScoreStep == 2600
DifficultyStep == 5
\* grid coordinates: the top row stands for TOP_Y and for the boss's band,
\* cell <<0, 0>> for the place the player is spawned at
TopRow == MaxCoord
\* TOP_Y, CORE_LANES and CHASER_LANES, in the units of the storyboard
TOP_Y == 420
CORE_LANES == <<-360, 0, 360>>
CHASER_LANES == <<-180, 0, 180>>
PlayerSpawnPos == <<0, 0>>
BossSpawnPos == <<0, MaxCoord>>
NoHalf == <<0, 0>>
Up == <<0, 1>>
NoLevel == -1
U8 == 256

Difficulties == {"Easy", "Normal", "Hard"}
AppStates == {"Title", "Playing", "Paused", "GameOver"}
EnemyKinds == {"Grunt", "Sine", "ZigZag", "Tank", "Chaser", "Boss"}
PowerUpKinds == {"Spread", "Rapid", "Shield", "Health", "Invincibility"}
NoDrop == "NoDrop"
NoControl == [phase |-> "None", direction |-> 0, fire_timer |-> 0]
NoState == "NoState"
NoTwin == [enemies |-> <<>>]
\* the start-up is not looked at
NoBoot == [observed |-> FALSE]

Max(a, b) == IF a >= b THEN a ELSE b
Min(a, b) == IF a <= b THEN a ELSE b
Abs(a) == IF a < 0 THEN 0 - a ELSE a
CeilDiv(a, b) == (a + b - 1) \div b

\* ----------------------------------------------------------------- state
VARIABLES
    appState,     \* State<AppState>
    nextState,    \* NextState<AppState>: the pending transition or NoState
    settings,     \* GameSettings.difficulty
    stats,        \* PlayerStats
    player,       \* the Player entity: exists, pos, half, invulnerability
    score,        \* ScoreBoard.score
    enemies,      \* entities with an Enemy component, in query order
    bullets,      \* entities with a Projectile component (player shots)
    shots,        \* entities with an EnemyProjectile component
    despawns,     \* ids of entities with a queued despawn command
    spawns,       \* queued spawn commands (entity records)
    bossState,    \* BossState
    director,     \* WaveDirector
    storyboard,   \* Storyboard (fixed once loaded)
    sched,        \* position in the frame: "fixed", "update" or "transition"
    ran,          \* systems of the FixedUpdate schedule run in this tick
    synced,       \* heads of a chain that a synchronisation point has followed
    last,         \* the system that ran last
    out,          \* events sent and state requests made by the system that ran last
    ret,          \* results of handle_player_hit calls of that system
    credited,     \* history: score credited per enemy id
    hits,         \* history: bullet hits applied per enemy id
    fired,        \* history: the player bullets spawned so far
    gameOverRequested,  \* history: GameOver was requested since the player was spawned
    weaponState,  \* PlayerWeaponState
    powerups,     \* entities with a PowerUp component
    twin,         \* a second execution of the boss systems from the same state
    boot,         \* start-up: the storyboard file found and what the load did with it
    spawnEvents   \* Events<SpawnEnemyEvent>: the requests alive, each read or not

vars == <<appState, nextState, settings, stats, player, score, enemies,
          bullets, shots, despawns, spawns, bossState, director,
          storyboard, sched, ran, synced, last, out, ret, credited, hits, fired,
          gameOverRequested, weaponState, powerups, twin, boot, spawnEvents>>

\* ---------------------------------------------------------------- events
AudioCue(c) == [type |-> "AudioCue", cue |-> c]
PlayerLifeLostEvent == [type |-> "PlayerLifeLost"]
\* src is the id of the entity the request was sent for (not a field of the
\* event in the code; kept to attribute requests to enemies).
ExplosionEvent(p, l, e) == [type |-> "Explosion", position |-> p, large |-> l, src |-> e]
SpawnPowerUpEvent(p, k, e) == [type |-> "SpawnPowerUp", position |-> p, kind |-> k, src |-> e]

Count(seq, P(_)) == Cardinality({i \in 1..Len(seq) : P(seq[i])})
IsHitCue(e) == e.type = "AudioCue" /\ e.cue = "Hit"
IsGameOverRequest(e) == e.type = "NextState" /\ e.state = "GameOver"
IsLifeLost(e) == e.type = "PlayerLifeLost"
IsExplosion(e) == e.type = "Explosion"
IsPowerUpRequest(e) == e.type = "SpawnPowerUp"
IsSpawnEnemy(e) == e.type = "SpawnEnemy"

\* Events<SpawnEnemyEvent>: a request stays readable through the tick
\* after the one it was sent in; the reader of spawn_enemies_from_events
\* passes each once.
Sent(ev) == [ev |-> ev, old |-> FALSE, read |-> FALSE]
IsNew(m) == ~m.old
Aged(m) == [m EXCEPT !.old = TRUE]
\* EventWriter::send for each of evs, in order
EventsSend(q, evs) == q \o [i \in 1..Len(evs) |-> Sent(evs[i])]
\* Events::update, once after a run of the fixed schedule
EventsUpdate(q) == LET kept == SelectSeq(q, IsNew)
                   IN [i \in 1..Len(kept) |-> Aged(kept[i])]
IsUnread(m) == ~m.read
MarkRead(m) == [m EXCEPT !.read = TRUE]
\* EventReader::read: the requests not yet passed, in the order sent
EventsUnread(q) == LET u == SelectSeq(q, IsUnread)
                   IN [i \in 1..Len(u) |-> u[i].ev]
EventsRead(q) == [i \in 1..Len(q) |-> MarkRead(q[i])]

\* The ids commands.spawn() hands out: the lowest ones no entity alive or
\* queued holds (ids of the histories stay taken, so that a history is about
\* one enemy).
UsedIds == {enemies[i].id : i \in DOMAIN enemies}
           \cup {bullets[i].id : i \in DOMAIN bullets}
           \cup {shots[i].id : i \in DOMAIN shots}
           \cup {spawns[i].entity.id : i \in DOMAIN spawns}
           \cup {powerups[i].id : i \in DOMAIN powerups}
           \cup DOMAIN credited \cup DOMAIN hits
RECURSIVE LowestFree(_, _)
LowestFree(used, i) == IF i \in used THEN LowestFree(used, i + 1) ELSE i
RECURSIVE FreshFrom(_, _)
FreshFrom(used, n) == IF n = 0 THEN <<>>
                      ELSE LET id == LowestFree(used, 1)
                           IN <<id>> \o FreshFrom(used \cup {id}, n - 1)
FreshIds(n) == FreshFrom(UsedIds, n)

\* ------------------------------------------------------------- collisions
\* overlaps(): axis-aligned boxes given by centre and half extent.
Overlaps(ac, ah, bc, bh) ==
    /\ Abs(ac[1] - bc[1]) <= ah[1] + bh[1]
    /\ Abs(ac[2] - bc[2]) <= ah[2] + bh[2]

\* u8::saturating_sub
\* faulty variant: u8 subtraction that wraps instead of saturating
WrappingSub(a, b) == (a - b) % U8
SaturatingSub(a, b) == IF b >= a THEN 0 ELSE a - b

\* faulty variant: the gate never closes
NeverInvulnerable(inv) == FALSE
\* the gate of handle_player_hit: defense.invulnerability > 0.0
Invulnerable(inv) == inv > 0

\* faulty variant: the damage is taken as passed
RawDamage(damage) == damage
\* damage.max(1)
HitDamage(damage) == Max(damage, 1)

\* the test that sends a hit that emptied the hull to the life-lost branch
HasSpareLife(st) == st.lives > 1

\* faulty variant: the hull is not refilled
LoseLifeOnly(st) == [st EXCEPT !.lives = st.lives - 1]
\* the stats after a life was lost: one life less, hull refilled
LoseLife(st) == [st EXCEPT !.lives = st.lives - 1, !.health = st.max_health]

\* next_state.set(s), kept with the events of the system
StateRequest(s) == [type |-> "NextState", state |-> s]

\* handle_player_hit(stats, defense, next_state, damage, ...): the new
\* stats, invulnerability and NextState, the cues sent and the result.
HandlePlayerHit(st, inv, ns, damage) ==
    IF Invulnerable(inv)
    THEN [stats |-> st, inv |-> inv, next |-> ns, cues |-> <<>>,
          accepted |-> FALSE, requested |-> FALSE]
    ELSE LET dmg == HitDamage(damage)
             h == SaturatingSub(st.health, dmg)
         IN IF h = 0
            THEN IF HasSpareLife(st)
                 THEN [stats |-> LoseLife([st EXCEPT !.health = h]),
                       inv |-> PLAYER_HIT_INVULNERABILITY,
                       next |-> ns,
                       cues |-> <<AudioCue("Hit"), PlayerLifeLostEvent>>,
                       accepted |-> TRUE, requested |-> FALSE]
                 ELSE [stats |-> [st EXCEPT !.lives = 0, !.health = h],
                       inv |-> 0,
                       next |-> "GameOver",
                       cues |-> <<AudioCue("Hit"), StateRequest("GameOver")>>,
                       accepted |-> TRUE, requested |-> TRUE]
            ELSE [stats |-> [st EXCEPT !.health = h],
                  inv |-> PLAYER_HIT_INVULNERABILITY,
                  next |-> ns,
                  cues |-> <<AudioCue("Hit")>>,
                  accepted |-> TRUE, requested |-> FALSE]

IsLarge(kind) == kind \in {"Tank", "Boss"}

\* faulty variant: the despawn command is not queued
DespawnSkipped(queue, entity) == queue
\* despawn_with_check(commands, entity, context): the despawn command of the
\* entity joins the queue (queued twice, it is applied once)
DespawnWithCheck(queue, entity) == queue \cup {entity}

\* The loop of player_enemy_collisions / enemy_projectile_player_collisions
\* from entity i on: every overlapping entity calls handle_player_hit, the
\* first accepted call ends the loop.  victim is the index of the entity
\* whose hit was accepted (0 if none), rets the results of the calls made.
RECURSIVE HitScan(_, _, _, _, _, _, _)
HitScan(ents, i, st, inv, ns, cues, rets) ==
    IF i > Len(ents)
    THEN [stats |-> st, inv |-> inv, next |-> ns, cues |-> cues,
          rets |-> rets, victim |-> 0, requested |-> FALSE]
    ELSE IF Overlaps(player.pos, player.half, ents[i].pos, ents[i].half)
         THEN LET r == HandlePlayerHit(st, inv, ns, ents[i].damage)
              IN IF r.accepted
                 THEN [stats |-> r.stats, inv |-> r.inv, next |-> r.next,
                       cues |-> cues \o r.cues,
                       rets |-> Append(rets, TRUE), victim |-> i,
                       requested |-> r.requested]
                 ELSE HitScan(ents, i + 1, r.stats, r.inv, r.next,
                              cues \o r.cues, Append(rets, FALSE))
         ELSE HitScan(ents, i + 1, st, inv, ns, cues, rets)

Ran(sys) == /\ appState = "Playing"
            /\ sched = "fixed"
            /\ sys \notin ran
            /\ ran' = ran \cup {sys}
            /\ last' = sys
            /\ UNCHANGED synced

\* player_enemy_collisions
PlayerEnemyCollisions ==
    /\ Ran("player_enemy_collisions")
    /\ IF ~player.exists
       THEN /\ out' = <<>> /\ ret' = <<>>
            /\ UNCHANGED <<stats, player, nextState, despawns, gameOverRequested>>
       ELSE LET r == HitScan(enemies, 1, stats, player.invulnerability,
                             nextState, <<>>, <<>>)
                e == enemies[r.victim]
            IN /\ stats' = r.stats
               /\ player' = [player EXCEPT !.invulnerability = r.inv]
               /\ nextState' = r.next
               /\ gameOverRequested' = (gameOverRequested \/ r.requested)
               /\ ret' = r.rets
               /\ IF r.victim = 0
                  THEN /\ out' = r.cues
                       /\ UNCHANGED despawns
                  ELSE /\ despawns' = DespawnWithCheck(despawns, e.id)
                       /\ out' = r.cues
                             \o (IF e.drop # NoDrop
                                 THEN <<SpawnPowerUpEvent(e.pos, e.drop, e.id)>>
                                 ELSE <<>>)
                             \o <<ExplosionEvent(e.pos, IsLarge(e.kind), e.id),
                                  ExplosionEvent(player.pos, TRUE, 0)>>
    /\ UNCHANGED <<appState, settings, score, enemies, bullets, shots, spawns,
                   sched, credited, hits, fired, bossState, director, storyboard>>
    /\ UNCHANGED <<weaponState, powerups, twin, boot, spawnEvents>>

\* enemy_projectile_player_collisions
EnemyProjectilePlayerCollisions ==
    /\ Ran("enemy_projectile_player_collisions")
    /\ IF ~player.exists
       THEN /\ out' = <<>> /\ ret' = <<>>
            /\ UNCHANGED <<stats, player, nextState, despawns, gameOverRequested>>
       ELSE LET r == HitScan(shots, 1, stats, player.invulnerability,
                             nextState, <<>>, <<>>)
            IN /\ stats' = r.stats
               /\ player' = [player EXCEPT !.invulnerability = r.inv]
               /\ nextState' = r.next
               /\ gameOverRequested' = (gameOverRequested \/ r.requested)
               /\ ret' = r.rets
               /\ IF r.victim = 0
                  THEN /\ out' = r.cues
                       /\ UNCHANGED despawns
                  ELSE /\ despawns' = DespawnWithCheck(despawns, shots[r.victim].id)
                       /\ out' = r.cues \o <<ExplosionEvent(player.pos, FALSE, 0)>>
    /\ UNCHANGED <<appState, settings, score, enemies, bullets, shots, spawns,
                   sched, credited, hits, fired, bossState, director, storyboard>>
    /\ UNCHANGED <<weaponState, powerups, twin, boot, spawnEvents>>

\* tick_player_invulnerability
TickPlayerInvulnerability ==
    /\ Ran("tick_player_invulnerability")
    /\ player' = IF player.exists
                 THEN [player EXCEPT !.invulnerability =
                                        Max(player.invulnerability - FixedDelta, 0)]
                 ELSE player
    /\ out' = <<>> /\ ret' = <<>>
    /\ UNCHANGED <<appState, nextState, settings, stats, score, enemies, bullets,
                   shots, despawns, spawns, sched, credited, hits, fired, bossState, director, storyboard,
                   gameOverRequested>>
    /\ UNCHANGED <<weaponState, powerups, twin, boot, spawnEvents>>

\* The first loops of projectile_enemy_collisions: for the bullets from b on,
\* the pair (bullet index, index of the first enemy it overlaps).
RECURSIVE FirstOverlap(_, _)
FirstOverlap(bl, i) ==
    IF i > Len(enemies) THEN 0
    ELSE IF Overlaps(enemies[i].pos, enemies[i].half, bl.pos, bl.half) THEN i
    ELSE FirstOverlap(bl, i + 1)

\* faulty variant: the scan goes on after an overlap, the last one counts
LastMatch(bl) ==
    LET T == {i \in DOMAIN enemies :
                Overlaps(enemies[i].pos, enemies[i].half, bl.pos, bl.half)}
    IN IF T = {} THEN 0 ELSE CHOOSE i \in T : \A j \in T : j <= i
\* the inner loop over enemy_shapes with its break: the first enemy in
\* query order the bullet overlaps, 0 if it overlaps none
FirstMatch(bl) == FirstOverlap(bl, 1)

RECURSIVE CollectHits(_)
CollectHits(b) ==
    IF b > Len(bullets) THEN <<>>
    ELSE LET e == FirstMatch(bullets[b])
         IN (IF e = 0 THEN <<>> ELSE <<<<b, e>>>>) \o CollectHits(b + 1)

Get(f, k) == IF k \in DOMAIN f THEN f[k] ELSE 0
Put(f, k, v) == [x \in DOMAIN f \cup {k} |-> IF x = k THEN v ELSE f[x]]

\* faulty variant: a matched bullet takes two points of health
DamageEnemyTwice(e) == [e EXCEPT !.health = e.health - 2]
\* The enemy after one matched bullet: enemy.health -= 1.
DamageEnemy(e) == [e EXCEPT !.health = e.health - 1]

\* The last loop of projectile_enemy_collisions from hit k on.  acc carries
\* the enemies, score, queued despawns, events and the two histories.
RECURSIVE ApplyHits(_, _, _)
ApplyHits(hl, k, acc) ==
    IF k > Len(hl) THEN acc
    ELSE LET bi == hl[k][1]
             ei == hl[k][2]
             e == DamageEnemy(acc.enemies[ei])
             a1 == [acc EXCEPT !.despawns = DespawnWithCheck(acc.despawns, bullets[bi].id),
                               !.enemies[ei] = e,
                               !.hits = Put(acc.hits, e.id, Get(acc.hits, e.id) + 1)]
         IN IF e.health <= 0
            THEN ApplyHits(hl, k + 1,
                     [a1 EXCEPT !.despawns = DespawnWithCheck(a1.despawns, e.id),
                                !.score = a1.score + e.score,
                                !.credited = Put(a1.credited, e.id,
                                                 Get(a1.credited, e.id) + e.score),
                                !.out = a1.out \o <<AudioCue("Explosion")>>
                                    \o (IF e.drop # NoDrop
                                        THEN <<SpawnPowerUpEvent(e.pos, e.drop, e.id)>>
                                        ELSE <<>>)
                                    \o <<ExplosionEvent(e.pos, IsLarge(e.kind), e.id)>>])
            ELSE ApplyHits(hl, k + 1, a1)

\* projectile_enemy_collisions
ProjectileEnemyCollisions ==
    /\ Ran("projectile_enemy_collisions")
    /\ LET r == ApplyHits(CollectHits(1), 1,
                          [enemies |-> enemies, score |-> score,
                           despawns |-> despawns, out |-> <<>>,
                           credited |-> credited, hits |-> hits])
       IN /\ enemies' = r.enemies
          /\ score' = r.score
          /\ despawns' = r.despawns
          /\ out' = r.out
          /\ credited' = r.credited
          /\ hits' = r.hits
    /\ ret' = <<>>
    /\ UNCHANGED <<appState, nextState, settings, stats, player, bullets, shots,
                   spawns, sched, bossState, director, storyboard,
                   fired, gameOverRequested>>
    /\ UNCHANGED <<weaponState, powerups, twin, boot, spawnEvents>>

\* advance_player_projectiles: every bullet moves by velocity * delta and is
\* despawned once above the top bound.
\* (age is a history field: the ticks the projectile has been advanced in)
MoveBullet(b) == [b EXCEPT !.pos = <<b.pos[1] + b.velocity[1],
                                     b.pos[2] + b.velocity[2]>>,
                           !.age = b.age + 1]

AdvancePlayerProjectiles ==
    /\ Ran("advance_player_projectiles")
    /\ "spawn_player_projectiles" \in synced
    /\ bullets' = [i \in 1..Len(bullets) |-> MoveBullet(bullets[i])]
    /\ despawns' = despawns \cup
                   {bullets'[i].id : i \in {j \in 1..Len(bullets) :
                                              bullets'[j].pos[2] > MaxCoord}}
    /\ out' = <<>> /\ ret' = <<>>
    /\ UNCHANGED <<appState, nextState, settings, stats, player, score, enemies,
                   shots, spawns, sched, credited, hits, fired, bossState, director, storyboard,
                   gameOverRequested>>
    /\ UNCHANGED <<weaponState, powerups, twin, boot, spawnEvents>>

\* expire_player_projectiles: the lifetime runs down by delta and the bullet
\* is despawned once it is used up.
AgeBullet(b) == [b EXCEPT !.lifetime = b.lifetime - FixedDelta]

ExpirePlayerProjectiles ==
    /\ Ran("expire_player_projectiles")
    /\ "advance_player_projectiles" \in synced
    /\ bullets' = [i \in 1..Len(bullets) |-> AgeBullet(bullets[i])]
    /\ despawns' = despawns \cup
                   {bullets'[i].id : i \in {j \in 1..Len(bullets) :
                                              bullets'[j].lifetime <= 0}}
    /\ out' = <<>> /\ ret' = <<>>
    /\ UNCHANGED <<appState, nextState, settings, stats, player, score, enemies,
                   shots, spawns, sched, credited, hits, fired, bossState, director,
                   storyboard, gameOverRequested>>
    /\ UNCHANGED <<weaponState, powerups, twin, boot, spawnEvents>>

\* ------------------------------------------------- enemy projectiles
IsShotSpawn(c) == c.what = "shot"
\* new_enemy_shot(origin, velocity, damage): every enemy shot lives 3.0 s
EnemyShotLifetime == 3 * UnitsPerSecond
NewEnemyShot(origin, velocity, damage) ==
    [origin |-> origin, velocity |-> velocity, lifetime |-> EnemyShotLifetime,
     damage |-> damage]
\* the velocities of enemy shots on the grid, a cell a tick: straight down
\* (StraightDown, the middle shot of the boss's fans), sideways and upwards
\* (rays of the boss's radial burst)
EnemyShotVelocities == {<<0, -1>>, <<1, 0>>, <<0, 1>>}
\* the EnemyFireEvents one run of spawn_enemy_projectiles can find unread:
\* none, or a shot sent from the top row
EnemyFireSeqs ==
    {<<>>} \cup {<<NewEnemyShot(<<0, TopRow>>, v, 1)>> : v \in EnemyShotVelocities}

\* the EnemyProjectile spawned for an event (l0 and age are history fields)
NewEnemyProjectile(id, ev) ==
    [id |-> id, pos |-> ev.origin, half |-> NoHalf, damage |-> ev.damage,
     velocity |-> ev.velocity, lifetime |-> ev.lifetime,
     l0 |-> ev.lifetime, age |-> 0]

\* spawn_enemy_projectiles: one EnemyProjectile per unread EnemyFireEvent
SpawnEnemyProjectiles ==
    /\ Ran("spawn_enemy_projectiles")
    /\ \E evs \in EnemyFireSeqs :
         /\ Len(shots) + Len(SelectSeq(spawns, IsShotSpawn)) + Len(evs) <= MaxShots
         /\ spawns' = spawns \o [i \in 1..Len(evs) |->
                                   [what |-> "shot",
                                    entity |-> NewEnemyProjectile(FreshIds(Len(evs))[i],
                                                                  evs[i])]]
    /\ out' = <<>> /\ ret' = <<>>
    /\ UNCHANGED <<appState, nextState, settings, stats, player, score, enemies,
                   bullets, shots, despawns, bossState, director, storyboard, sched,
                   credited, hits, fired, gameOverRequested>>
    /\ UNCHANGED <<weaponState, powerups, twin, boot, spawnEvents>>

\* advance_enemy_projectiles: every shot moves by velocity * delta and is
\* despawned once below the bottom bound.
AdvanceEnemyProjectiles ==
    /\ Ran("advance_enemy_projectiles")
    /\ "spawn_enemy_projectiles" \in synced
    /\ shots' = [i \in 1..Len(shots) |-> MoveBullet(shots[i])]
    /\ despawns' = despawns \cup
                   {shots'[i].id : i \in {j \in 1..Len(shots) : shots'[j].pos[2] < 0}}
    /\ out' = <<>> /\ ret' = <<>>
    /\ UNCHANGED <<appState, nextState, settings, stats, player, score, enemies,
                   bullets, spawns, sched, credited, hits, fired, bossState, director,
                   storyboard, gameOverRequested>>
    /\ UNCHANGED <<weaponState, powerups, twin, boot, spawnEvents>>

\* faulty variant: the lifetime of an enemy shot does not run down
KeepShot(b) == b
\* projectile.lifetime -= delta in expire_enemy_projectiles
AgeShot(b) == [b EXCEPT !.lifetime = b.lifetime - FixedDelta]

\* expire_enemy_projectiles
ExpireEnemyProjectiles ==
    /\ Ran("expire_enemy_projectiles")
    /\ "advance_enemy_projectiles" \in synced
    /\ shots' = [i \in 1..Len(shots) |-> AgeShot(shots[i])]
    /\ despawns' = despawns \cup
                   {shots'[i].id : i \in {j \in 1..Len(shots) : shots'[j].lifetime <= 0}}
    /\ out' = <<>> /\ ret' = <<>>
    /\ UNCHANGED <<appState, nextState, settings, stats, player, score, enemies,
                   bullets, spawns, sched, credited, hits, fired, bossState, director,
                   storyboard, gameOverRequested>>
    /\ UNCHANGED <<weaponState, powerups, twin, boot, spawnEvents>>

\* ------------------------------------------------------ enemies in motion
\* move_enemies for the Straight pattern, on the grid a cell a tick: every
\* entity with an EnemyMotion (the boss has none) moves straight down
MoveEnemy(e) == IF e.control.phase # NoControl.phase THEN e
                ELSE [e EXCEPT !.pos = <<e.pos[1], e.pos[2] - 1>>]
MoveEnemies ==
    /\ Ran("move_enemies")
    /\ enemies' = [i \in 1..Len(enemies) |-> MoveEnemy(enemies[i])]
    /\ out' = <<>> /\ ret' = <<>>
    /\ UNCHANGED <<appState, nextState, settings, stats, player, score, bullets,
                   shots, despawns, spawns, sched, credited, hits, fired, bossState,
                   director, storyboard, gameOverRequested>>
    /\ UNCHANGED <<weaponState, powerups, twin, boot, spawnEvents>>

\* cleanup_offscreen_enemies: every enemy below the bottom bound is
\* despawned, nothing else is done
CleanupOffscreenEnemies ==
    /\ Ran("cleanup_offscreen_enemies")
    /\ despawns' = despawns \cup
                   {enemies[i].id : i \in {j \in 1..Len(enemies) : enemies[j].pos[2] < 0}}
    /\ out' = <<>> /\ ret' = <<>>
    /\ UNCHANGED <<appState, nextState, settings, stats, player, score, enemies,
                   bullets, shots, spawns, sched, credited, hits, fired, bossState,
                   director, storyboard, gameOverRequested>>
    /\ UNCHANGED <<weaponState, powerups, twin, boot, spawnEvents>>

\* What a synchronisation point does to the world: queued spawns are
\* inserted, queued despawns removed.
Alive(e) == e.id \notin despawns
Applied(seq) == SelectSeq(seq, Alive)

IsEnemySpawn(c) == c.what = "enemy"
IsBulletSpawn(c) == c.what = "bullet"
Entities(cmds) == [i \in 1..Len(cmds) |-> cmds[i].entity]

ApplyCommands ==
    /\ enemies' = Applied(enemies \o Entities(SelectSeq(spawns, IsEnemySpawn)))
    /\ bullets' = Applied(bullets \o Entities(SelectSeq(spawns, IsBulletSpawn)))
    /\ shots' = Applied(shots \o Entities(SelectSeq(spawns, IsShotSpawn)))
    /\ despawns' = {}
    /\ spawns' = <<>>
    /\ powerups' = Applied(powerups)

\* systems followed in their chain by a system that needs their commands
\* applied (weapons.rs: spawn -> advance -> expire, for the player's and
\* for the enemies' projectiles)
ChainHeads == {"spawn_player_projectiles", "advance_player_projectiles",
               "spawn_enemy_projectiles", "advance_enemy_projectiles"}

\* apply_deferred between two systems of a tick
ApplyDeferred ==
    /\ appState = "Playing" /\ sched = "fixed"
    /\ ran # {}
    /\ despawns # {} \/ spawns # <<>> \/ (ran \cap ChainHeads) # synced
    /\ ApplyCommands
    /\ synced' = ran \cap ChainHeads
    /\ UNCHANGED <<appState, nextState, settings, stats, player, score, sched, ran, last, out, ret, credited, hits, fired, bossState,
                   director, storyboard,
                   gameOverRequested>>
    /\ UNCHANGED <<weaponState, twin, boot, spawnEvents>>

\* The end of a FixedUpdate run in which the systems S have run.
EndTick(S) ==
    /\ appState = "Playing" /\ sched = "fixed"
    /\ ran = S
    /\ ApplyCommands
    /\ ran' = {}
    /\ synced' = {}
    /\ last' = "end_tick"
    /\ out' = <<>> /\ ret' = <<>>
    /\ spawnEvents' = EventsUpdate(spawnEvents)
    /\ UNCHANGED <<appState, nextState, settings, stats, player, score, sched, credited, hits, fired, bossState, director, storyboard,
                   gameOverRequested>>
    /\ UNCHANGED weaponState

\* ------------------------------------------------------------- difficulty
\* Difficulty::spawn_interval_factor / enemy_health_factor /
\* enemy_bullet_factor, in hundredths
\* faulty variant: the factors of Easy and Hard exchanged
SpawnIntervalFactorSwapped(d) == CASE d = "Easy" -> 80 [] d = "Normal" -> 100 [] d = "Hard" -> 125
SpawnIntervalFactor(d) == CASE d = "Easy" -> 125 [] d = "Normal" -> 100 [] d = "Hard" -> 80
EnemyHealthFactor(d) == CASE d = "Easy" -> 90 [] d = "Normal" -> 100 [] d = "Hard" -> 115
EnemyBulletFactor(d) == CASE d = "Easy" -> 90 [] d = "Normal" -> 100 [] d = "Hard" -> 120

\* EnemyKind::health / score_value
KindHealth(k) == CASE k = "Grunt" -> 1 [] k = "Sine" -> 2 [] k = "ZigZag" -> 2
                   [] k = "Tank" -> 6 [] k = "Chaser" -> 3 [] k = "Boss" -> 200
ScoreValue(k) == CASE k = "Grunt" -> 100 [] k = "Sine" -> 150 [] k = "ZigZag" -> 200
                   [] k = "Tank" -> 350 [] k = "Chaser" -> 250 [] k = "Boss" -> 2000

\* The Enemy component spawn_enemies_from_events builds for an event:
\* health = ceil(kind.health * enemy_health_factor).  h0 records the health
\* the enemy was created with.
NewEnemy(id, kind, pos, drop, dmg, d) ==
    LET h == CeilDiv(KindHealth(kind) * EnemyHealthFactor(d), 100)
    IN [id |-> id, kind |-> kind, health |-> h, h0 |-> h,
        score |-> ScoreValue(kind), damage |-> dmg, pos |-> pos,
        half |-> NoHalf, drop |-> drop, control |-> NoControl]

\* ------------------------------------------------------------- storyboard
Lane(delay, enemy, lanes, yoff, movement, powerup, idx) ==
    [delay_seconds |-> delay, pattern |-> "lane", enemy |-> enemy, lanes |-> lanes,
     y_offset |-> yoff, movement |-> movement, powerup |-> powerup,
     powerup_lane_index |-> idx]
Fixed(delay, ens) == [delay_seconds |-> delay, pattern |-> "fixed", enemies |-> ens]
Straight(speed, scale) == [type |-> "straight", speed |-> speed, scale_with_difficulty |-> scale]
Tank(speed, base, factor) == [type |-> "tank", speed |-> speed, base_factor |-> base,
                              difficulty_factor |-> factor]

\* amplitude in units, frequency and frequency_gain in hundredths
Sine(speed, amplitude, frequency, gain, offset) ==
    [type |-> "sine", speed |-> speed, amplitude |-> amplitude,
     frequency |-> frequency, frequency_gain |-> gain, base_x_offset |-> offset]
\* direction: NoDirection stands for None
NoDirection == 0
ZigZag(speed, horizontal, direction) ==
    [type |-> "zigzag", speed |-> speed, horizontal_speed |-> horizontal,
     direction |-> direction]
Chaser(speed, turn_rate, turn_rate_scale) ==
    [type |-> "chaser", speed |-> speed, turn_rate |-> turn_rate,
     turn_rate_scale |-> turn_rate_scale]

\* Storyboard::default: one level of six waves
DefaultStoryboard ==
    << [waves |-> <<
          Lane(BASE_INTERVAL, "Grunt", CORE_LANES, 0, Straight(160, TRUE), "Rapid", 1),
          Lane(BASE_INTERVAL, "Sine", CORE_LANES, 40, Sine(130, 140, 140, 15, 0),
               "Shield", 1),
          Lane(BASE_INTERVAL, "ZigZag", CORE_LANES, 60, ZigZag(150, 180, NoDirection),
               "Spread", 1),
          Fixed(BASE_INTERVAL,
                << [enemy |-> "Tank", position |-> <<-200, TOP_Y + 100>>,
                    movement |-> Tank(90, 80, 10), powerup |-> "Health"],
                   [enemy |-> "Tank", position |-> <<200, TOP_Y + 100>>,
                    movement |-> Tank(90, 80, 10), powerup |-> NoDrop] >>),
          Lane(BASE_INTERVAL, "Chaser", CHASER_LANES, 20, Chaser(180, 120, 20),
               NoDrop, 1),
          Lane(BASE_INTERVAL, "Grunt", CORE_LANES, 0, Straight(165, TRUE),
               "Invincibility", 1) >>] >>

\* A storyboard file of two levels (three waves) with short delays.
SmallStoryboard ==
    << [waves |-> << Lane(UnitsPerSecond, "Grunt", <<0, 1>>, 0, Straight(160, TRUE), "Rapid", 1),
                     Fixed(UnitsPerSecond \div 2,
                           << [enemy |-> "Tank", position |-> <<1, TopRow>>,
                               movement |-> Tank(90, 80, 10), powerup |-> "Health"] >>) >>],
       [waves |-> << Lane(UnitsPerSecond, "Grunt", <<0>>, 0, Straight(165, TRUE), NoDrop, NoLevel) >>] >>

Storyboards == {SmallStoryboard}

\* A storyboard file whose first level has no waves ("waves": []), followed
\* by the levels of SmallStoryboard.
HollowStoryboard == << [waves |-> <<>>] >> \o SmallStoryboard
\* A storyboard file with no levels ("levels": []), and one whose second and
\* last level has no waves.
EmptyStoryboard == SubSeq(SmallStoryboard, 1, 0)
TrailingHollow == SubSeq(SmallStoryboard, 1, 1) \o << [waves |-> <<>>] >>

\* ------------------------------------------------------ storyboard file
\* A string of the file is a tuple of one-character strings; JsonNull is
\* the JSON value null.
JsonNull == <<"null">>
UpperCase == <<"A", "B", "C", "D", "E", "F", "G", "H", "I", "J", "K", "L", "M", "N", "O", "P", "Q", "R", "S", "T", "U", "V", "W", "X", "Y", "Z">>
LowerCase == <<"a", "b", "c", "d", "e", "f", "g", "h", "i", "j", "k", "l", "m", "n", "o", "p", "q", "r", "s", "t", "u", "v", "w", "x", "y", "z">>
ToLower(c) ==
    IF \E i \in DOMAIN UpperCase : UpperCase[i] = c
    THEN LowerCase[CHOOSE i \in DOMAIN UpperCase : UpperCase[i] = c]
    ELSE c
IsKept(c) == c \notin {"-", "_", " "}
\* value.replace(['-', '_', ' '], "").to_lowercase()
Normalize(v) ==
    LET kept == SelectSeq(v, IsKept)
    IN [i \in 1..Len(kept) |-> ToLower(kept[i])]

Ok(x) == [ok |-> TRUE, value |-> x]
Err(e) == [ok |-> FALSE, error |-> e]
\* de::Error::unknown_variant(&value, expected)
UnknownVariant(v, expected) ==
    Err([type |-> "unknown_variant", value |-> v, expected |-> expected])
EnemyKindNames == <<"grunt", "sine", "zig_zag", "tank", "chaser", "boss">>
PowerUpKindNames == <<"spread", "rapid", "shield", "health", "invincibility">>

\* Deserialize for EnemyKind
ParseEnemyKind(v) ==
    LET n == Normalize(v)
    IN
        CASE n = <<"g", "r", "u", "n", "t">> -> Ok("Grunt")
          [] n = <<"s", "i", "n", "e">> -> Ok("Sine")
          [] n = <<"z", "i", "g", "z", "a", "g">> -> Ok("ZigZag")
          [] n = <<"t", "a", "n", "k">> -> Ok("Tank")
          [] n = <<"c", "h", "a", "s", "e", "r">> -> Ok("Chaser")
          [] n = <<"b", "o", "s", "s">> -> Ok("Boss")
          [] OTHER -> UnknownVariant(v, EnemyKindNames)
\* Deserialize for PowerUpKind
ParsePowerUpKind(v) ==
    LET n == Normalize(v)
    IN
        CASE n = <<"s", "p", "r", "e", "a", "d">> -> Ok("Spread")
          [] n = <<"r", "a", "p", "i", "d">> -> Ok("Rapid")
          [] n = <<"s", "h", "i", "e", "l", "d">> -> Ok("Shield")
          [] n = <<"h", "e", "a", "l", "t", "h">> -> Ok("Health")
          [] n = <<"i", "n", "v", "i", "n", "c", "i", "b", "i", "l", "i", "t", "y">> -> Ok("Invincibility")
          [] n = <<"i", "n", "v", "i", "n", "c", "i", "b", "l", "e">> -> Ok("Invincibility")
          [] OTHER -> UnknownVariant(v, PowerUpKindNames)
\* Option<PowerUpKind>
ParseOptionalPowerUp(v) == IF v = JsonNull THEN Ok(NoDrop) ELSE ParsePowerUpKind(v)

RECURSIVE Flatten(_)
Flatten(ss) == IF ss = <<>> THEN <<>> ELSE Head(ss) \o Flatten(Tail(ss))
IsErr(r) == ~r.ok

\* the results of parsing the kinds of a wave of the file, in file order
WaveKindResults(w) ==
    IF w.pattern = "lane"
    THEN <<ParseEnemyKind(w.enemy), ParseOptionalPowerUp(w.powerup)>>
    ELSE Flatten([i \in 1..Len(w.enemies) |->
                    <<ParseEnemyKind(w.enemies[i].enemy),
                      ParseOptionalPowerUp(w.enemies[i].powerup)>>])
\* the wave definition a wave of the file with known kinds is parsed to
ParsedWave(w) ==
    IF w.pattern = "lane"
    THEN [w EXCEPT !.enemy = ParseEnemyKind(w.enemy).value,
                   !.powerup = ParseOptionalPowerUp(w.powerup).value]
    ELSE [w EXCEPT !.enemies =
            [i \in 1..Len(w.enemies) |->
               [w.enemies[i] EXCEPT
                  !.enemy = ParseEnemyKind(w.enemies[i].enemy).value,
                  !.powerup = ParseOptionalPowerUp(w.enemies[i].powerup).value]]]

\* A storyboard file: present or not, its text well-formed JSON of the shape
\* of StoryboardFile or not, and the levels written in it.
MissingFile == [present |-> FALSE, json |-> FALSE, levels |-> <<>>]
BrokenFile == [present |-> TRUE, json |-> FALSE, levels |-> <<>>]
FileWith(levels) == [present |-> TRUE, json |-> TRUE, levels |-> levels]

\* Storyboard::from_file: read_to_string, serde_json::from_str, Level::from
FromFile(file) ==
    IF ~file.present THEN Err([type |-> "Io"])
    ELSE IF ~file.json THEN Err([type |-> "Parse", cause |-> [type |-> "syntax"]])
    ELSE LET results == Flatten([l \in 1..Len(file.levels) |->
                           Flatten([w \in 1..Len(file.levels[l].waves) |->
                                      WaveKindResults(file.levels[l].waves[w])])])
             bad == SelectSeq(results, IsErr)
         IN IF bad # <<>>
            THEN Err([type |-> "Parse", cause |-> bad[1].error])
            ELSE Ok([l \in 1..Len(file.levels) |->
                       [waves |-> [w \in 1..Len(file.levels[l].waves) |->
                                     ParsedWave(file.levels[l].waves[w])]]])

NoError == [type |-> "None"]
\* faulty variant: a file that cannot be loaded leaves an empty storyboard
BuildWithoutFallback(file) ==
    LET r == FromFile(file)
    IN [storyboard |-> IF r.ok THEN r.value ELSE <<>>,
        boot |-> [observed |-> TRUE, file |-> file, fatal |-> FALSE,
                  warned |-> ~r.ok, error |-> IF r.ok THEN NoError ELSE r.error]]
\* SpawnPlugin::build: the Storyboard resource inserted, the warning logged;
\* no path of it panics or exits
Build(file) ==
    LET r == FromFile(file)
    IN [storyboard |-> IF r.ok THEN r.value ELSE DefaultStoryboard,
        boot |-> [observed |-> TRUE, file |-> file, fatal |-> FALSE,
                  warned |-> ~r.ok, error |-> IF r.ok THEN NoError ELSE r.error]]

\* files of one level with one lane wave, the kinds written in several ways
EnemyTexts == {<<"g", "r", "u", "n", "t">>, <<"Z", "i", "g", "-", "Z", "a", "g">>, <<"d", "r", "o", "n", "e">>}
PowerUpTexts == {JsonNull, <<"r", "a", "p", "i", "d">>, <<"I", "n", "v", "i", "n", "c", "i", "b", "l", "e">>, <<"m", "e", "g", "a">>}
OneWaveFile(enemy, powerup) ==
    FileWith(<< [waves |-> << Lane(UnitsPerSecond, enemy, <<0>>, 0,
                                   Straight(160, TRUE), powerup, 0) >>] >>)
StoryboardFiles ==
    {MissingFile, BrokenFile} \cup
    {OneWaveFile(e, p) : e \in EnemyTexts, p \in PowerUpTexts}

\* Storyboard::level_count / level / first_delay (levels are counted from 0)
LevelCount(sb) == Len(sb)
HasLevel(sb, index) == index >= 0 /\ index < Len(sb)
Level(sb, index) == sb[index + 1]
NoDelay == -1
FirstDelay(sb, index) ==
    IF HasLevel(sb, index) /\ Len(Level(sb, index).waves) > 0
    THEN Level(sb, index).waves[1].delay_seconds ELSE NoDelay

\* ------------------------------------------------------------------ timer
\* bevy Timer in TimerMode::Once: reset(), set_duration(), tick(delta) with
\* the value of just_finished() after it
NewTimer(duration) == [elapsed |-> 0, duration |-> duration, finished |-> FALSE]
TimerReset(t) == [t EXCEPT !.elapsed = 0, !.finished = FALSE]
TimerTick(t, delta) ==
    IF t.finished THEN [timer |-> t, just_finished |-> FALSE]
    ELSE IF t.elapsed + delta >= t.duration
         THEN [timer |-> [t EXCEPT !.elapsed = t.duration, !.finished = TRUE],
               just_finished |-> TRUE]
         ELSE [timer |-> [t EXCEPT !.elapsed = t.elapsed + delta],
               just_finished |-> FALSE]

\* ---------------------------------------------------------- wave director
\* faulty variant: the timer is set for the delay of the level's first wave
SetTimerForFirstWave(dir, sb, d) ==
    LET first == FirstDelay(sb, dir.level_index)
        delay == IF first # NoDelay THEN first ELSE BASE_INTERVAL
    IN [dir EXCEPT !.timer = NewTimer((delay * SpawnIntervalFactor(d)) \div 100)]
\* set_timer_for_next_wave
SetTimerForNextWave(dir, sb, d) ==
    LET own == IF HasLevel(sb, dir.level_index)
                  /\ dir.wave_index < Len(Level(sb, dir.level_index).waves)
               THEN Level(sb, dir.level_index).waves[dir.wave_index + 1].delay_seconds
               ELSE NoDelay
        first == FirstDelay(sb, dir.level_index)
        delay == IF own # NoDelay THEN own
                 ELSE IF first # NoDelay THEN first ELSE BASE_INTERVAL
        scaled == (delay * SpawnIntervalFactor(d)) \div 100
    IN [dir EXCEPT !.timer = NewTimer(scaled)]

\* faulty variant: the difficulty accumulator survives the level advance
AdvanceLevelKeepsDifficulty(dir, sb, d) ==
    IF LevelCount(sb) = 0 THEN dir
    ELSE LET next_index == IF dir.pending_level # NoLevel THEN dir.pending_level
                           ELSE (dir.level_index + 1) % LevelCount(sb)
         IN SetTimerForNextWave([dir EXCEPT !.level_index = next_index,
                                            !.wave_index = 0,
                                            !.pending_level = NoLevel],
                                sb, d)
\* advance_level
AdvanceLevel(dir, sb, d) ==
    IF LevelCount(sb) = 0 THEN dir
    ELSE LET next_index == IF dir.pending_level # NoLevel THEN dir.pending_level
                           ELSE (dir.level_index + 1) % LevelCount(sb)
         IN SetTimerForNextWave([dir EXCEPT !.level_index = next_index,
                                            !.wave_index = 0,
                                            !.difficulty = EnemyHealthFactor(d),
                                            !.pending_level = NoLevel],
                                sb, d)

\* faulty variant: the level reached in the run before is kept
ResetWavesKeepsLevel(dir, sb, d) ==
    SetTimerForNextWave([dir EXCEPT !.timer = TimerReset(dir.timer),
                                    !.wave_index = 0,
                                    !.difficulty = EnemyHealthFactor(d),
                                    !.boss_active = FALSE,
                                    !.pending_level = NoLevel],
                        sb, d)
\* reset_waves
ResetWaves(dir, sb, d) ==
    SetTimerForNextWave([dir EXCEPT !.timer = TimerReset(dir.timer),
                                    !.wave_index = 0,
                                    !.difficulty = EnemyHealthFactor(d),
                                    !.boss_active = FALSE,
                                    !.level_index = 0,
                                    !.pending_level = NoLevel],
                        sb, d)

\* WaveDirector::default
DefaultDirector ==
    [timer |-> NewTimer(BASE_INTERVAL), wave_index |-> 0, difficulty |-> 100,
     boss_active |-> FALSE, level_index |-> 0, pending_level |-> NoLevel]

\* MovementConfig::to_pattern; scale is difficulty_scale in 1/10000, the
\* factors of the configuration are in hundredths and the speeds of the
\* pattern, the frequency and the turn rate in 1/1000000
\* faulty variant: the speed of Straight is never scaled
ToPatternUnscaled(m, scale, lane_x) ==
    [type |-> "Straight", speed |-> m.speed * 1000000]
ToPattern(m, scale, lane_x) ==
    CASE m.type = "straight" ->
           [type |-> "Straight",
            speed |-> IF m.scale_with_difficulty THEN m.speed * scale * 100
                      ELSE m.speed * 1000000]
      [] m.type = "sine" ->
           [type |-> "Sine", speed |-> m.speed, amplitude |-> m.amplitude,
            frequency |-> m.frequency * 10000 + scale * m.frequency_gain,
            base_x |-> lane_x + m.base_x_offset]
      [] m.type = "zigzag" ->
           [type |-> "ZigZag", speed |-> m.speed,
            horizontal_speed |-> m.horizontal_speed,
            direction |-> IF m.direction # NoDirection THEN m.direction
                          ELSE IF lane_x >= 0 THEN -1 ELSE 1]
      [] m.type = "tank" ->
           [type |-> "Tank",
            speed |-> m.speed * (m.base_factor * 10000 + scale * m.difficulty_factor)]
      [] m.type = "chaser" ->
           [type |-> "Chaser", speed |-> m.speed,
            turn_rate |-> m.turn_rate * 1000000 + scale * m.turn_rate_scale * 100]

SpawnEnemyEvent(kind, pos, movement, powerup) ==
    [type |-> "SpawnEnemy", kind |-> kind, position |-> pos, movement |-> movement,
     powerup |-> powerup]

\* spawn_lane_wave / spawn_fixed_wave / spawn_wave_from_definition
\* faulty variant: every lane of the wave carries the power-up
SpawnLaneWaveDropsAll(w, scale) ==
    [i \in 1..Len(w.lanes) |->
        SpawnEnemyEvent(w.enemy, <<w.lanes[i], TOP_Y + w.y_offset>>,
                        ToPattern(w.movement, scale, w.lanes[i]), w.powerup)]
SpawnLaneWave(w, scale) ==
    [i \in 1..Len(w.lanes) |->
        SpawnEnemyEvent(w.enemy, <<w.lanes[i], TOP_Y + w.y_offset>>,
                        ToPattern(w.movement, scale, w.lanes[i]),
                        IF w.powerup_lane_index = i - 1 THEN w.powerup ELSE NoDrop)]
SpawnFixedWave(w, scale) ==
    [i \in 1..Len(w.enemies) |->
        SpawnEnemyEvent(w.enemies[i].enemy, w.enemies[i].position,
                        ToPattern(w.enemies[i].movement, scale,
                                  w.enemies[i].position[1]),
                        w.enemies[i].powerup)]
SpawnWaveFromDefinition(w, scale) ==
    IF w.pattern = "lane" THEN SpawnLaneWave(w, scale) ELSE SpawnFixedWave(w, scale)

\* faulty variant: the director ignores the boss encounter
NeverSuspended(dir) == FALSE
\* the first test of drive_waves: the director is suspended during a boss
\* encounter
Suspended(dir) == dir.boss_active

\* faulty variant: the index is not taken modulo the wave count
NextWaveIndexUnbounded(dir, wave_count) == dir.wave_index + 1
\* the wave index drive_waves stores after firing a wave
NextWaveIndex(dir, wave_count) == (dir.wave_index + 1) % wave_count

\* faulty variant: the timer is ticked before the level is looked at
DriveWavesTicksFirst(dir, sb, d) ==
    LET t == TimerTick(dir.timer, FixedDelta)
    IN IF Suspended(dir) THEN [director |-> dir, events |-> <<>>]
       ELSE [director |-> [dir EXCEPT !.timer = t.timer], events |-> <<>>]
\* drive_waves: the director and the events sent
DriveWavesResult(dir, sb, d) ==
    IF Suspended(dir) THEN [director |-> dir, events |-> <<>>]
    ELSE IF ~HasLevel(sb, dir.level_index) THEN [director |-> dir, events |-> <<>>]
    ELSE IF Len(Level(sb, dir.level_index).waves) = 0 THEN [director |-> dir, events |-> <<>>]
    ELSE LET t == TimerTick(dir.timer, FixedDelta)
             waves == Level(sb, dir.level_index).waves
             wave_count == Len(waves)
             current_index == dir.wave_index % wave_count
             scale == dir.difficulty * EnemyHealthFactor(d)
             wi == NextWaveIndex(dir, wave_count)
             pend == IF wi = 0 /\ dir.pending_level = NoLevel /\ LevelCount(sb) > 0
                     THEN (dir.level_index + 1) % LevelCount(sb)
                     ELSE dir.pending_level
         IN IF ~t.just_finished
            THEN [director |-> [dir EXCEPT !.timer = t.timer], events |-> <<>>]
            ELSE [director |-> SetTimerForNextWave(
                                   [dir EXCEPT !.timer = t.timer,
                                               !.wave_index = wi,
                                               !.difficulty = dir.difficulty + DifficultyStep,
                                               !.pending_level = pend],
                                   sb, d),
                  events |-> SpawnWaveFromDefinition(waves[current_index + 1], scale)]

DriveWaves ==
    /\ Ran("drive_waves")
    /\ LET r == DriveWavesResult(director, storyboard, settings)
       IN /\ r.director.difficulty <= MaxDifficulty
          /\ director' = r.director
          /\ out' = r.events
          /\ spawnEvents' = EventsSend(spawnEvents, SelectSeq(r.events, IsSpawnEnemy))
    /\ ret' = <<>>
    /\ UNCHANGED <<appState, nextState, settings, stats, player, score, enemies,
                   bullets, shots, despawns, spawns, bossState, storyboard,
                   sched, credited, hits, fired,
                   gameOverRequested>>
    /\ UNCHANGED <<weaponState, powerups, twin, boot>>

\* the enemy that spawn_enemies_from_events spawns for a request: health
\* ceil(kind health x enemy-health factor), the kind's score, damage 1, at
\* the requested position; no power-up drop is attached by this system
EnemyFromEvent(id, ev, d) == NewEnemy(id, ev.kind, ev.position, NoDrop, 1, d)
\* faulty variant: only the first of the requests read is spawned
SpawnFirstOnly(evs, ids, d) ==
    [i \in 1..Min(Len(evs), 1) |->
        [what |-> "enemy", entity |-> EnemyFromEvent(ids[i], evs[i], d)]]
\* one commands.spawn for every request read, in the order read
SpawnForEach(evs, ids, d) ==
    [i \in 1..Len(evs) |->
        [what |-> "enemy", entity |-> EnemyFromEvent(ids[i], evs[i], d)]]

\* spawn_enemies_from_events
SpawnEnemiesFromEvents ==
    /\ Ran("spawn_enemies_from_events")
    /\ LET evs == EventsUnread(spawnEvents)
       IN spawns' = spawns \o SpawnForEach(evs, FreshIds(Len(evs)), settings)
    /\ spawnEvents' = EventsRead(spawnEvents)
    /\ out' = <<>> /\ ret' = <<>>
    /\ UNCHANGED <<appState, nextState, settings, stats, player, score, enemies,
                   bullets, shots, despawns, bossState, director, storyboard, sched,
                   credited, hits, fired, gameOverRequested>>
    /\ UNCHANGED <<weaponState, powerups, twin, boot>>

\* A frame outside play: no system of the Playing sets runs, the events
\* are updated as after every frame.
IdleFrame ==
    /\ appState # "Playing" /\ sched = "fixed" /\ ran = {}
    /\ spawnEvents # <<>>
    /\ spawnEvents' = EventsUpdate(spawnEvents)
    /\ last' = "idle_frame"
    /\ out' = <<>> /\ ret' = <<>>
    /\ UNCHANGED <<appState, nextState, settings, stats, player, score, enemies,
                   bullets, shots, despawns, spawns, bossState, director, storyboard,
                   sched, ran, synced, credited, hits, fired, gameOverRequested>>
    /\ UNCHANGED <<weaponState, powerups, twin, boot>>

\* ------------------------------------------------------------------- boss
\* BossState::default
DefaultBossState ==
    [active |-> FALSE, entity |-> 0, max_health |-> 0, health |-> 0,
     spawn_score |-> BossSpawnScoreStep]

\* reset_boss_state
ResetBossState(bs) ==
    [bs EXCEPT !.active = FALSE, !.entity = 0, !.max_health = 0, !.health = 0]

\* The entity trigger_boss_spawn spawns.
NewBoss(id) ==
    [id |-> id, kind |-> "Boss", health |-> BossMaxHealth, h0 |-> BossMaxHealth,
     score |-> ScoreValue("Boss"), damage |-> 1, pos |-> BossSpawnPos,
     half |-> NoHalf, drop |-> NoDrop,
     control |-> [phase |-> "Entry", direction |-> 1,
                  fire_timer |-> UnitsPerSecond]]

\* faulty variant: the threshold itself does not count as reached
BossDueAbove(bs, sc) == ~(bs.active \/ sc <= bs.spawn_score)
\* the guard of trigger_boss_spawn, negated: no encounter is active and the
\* score has reached the threshold
BossDue(bs, sc) == ~(bs.active \/ sc < bs.spawn_score)

\* trigger_boss_spawn on BossState bs, WaveDirector dir and score sc: the
\* two resources after it and the entities it spawns (id is the entity
\* commands.spawn() returns)
TriggerBossSpawnResult(bs, dir, sc, id) ==
    IF ~BossDue(bs, sc)
    THEN [bossState |-> bs, director |-> dir, spawned |-> <<>>]
    ELSE [bossState |-> [bs EXCEPT !.active = TRUE,
                                   !.entity = id,
                                   !.max_health = BossMaxHealth,
                                   !.health = BossMaxHealth],
          director |-> [dir EXCEPT !.boss_active = TRUE],
          spawned |-> <<NewBoss(id)>>]

TriggerBossSpawn ==
    /\ Ran("trigger_boss_spawn")
    /\ LET r == TriggerBossSpawnResult(bossState, director, score, FreshIds(1)[1])
       IN /\ spawns' = spawns \o [i \in 1..Len(r.spawned) |->
                                     [what |-> "enemy", entity |-> r.spawned[i]]]
          /\ bossState' = r.bossState
          /\ director' = r.director
    /\ out' = <<>> /\ ret' = <<>>
    /\ UNCHANGED <<appState, nextState, settings, stats, player, score, enemies,
                   bullets, shots, despawns, storyboard, sched, credited, hits, fired,
                   gameOverRequested>>
    /\ UNCHANGED <<weaponState, powerups, twin, boot, spawnEvents>>

HasControl(e) == e.control.phase # NoControl.phase
\* indices of the entities a Query<.., With<BossControl>> matches
BossIndices == {i \in 1..Len(enemies) : HasControl(enemies[i])}

\* The phase after the update of boss_movement_and_attacks:
\* ratio = max(health, 0) / max_health, or 1 when max_health is 0.
NextPhase(phase, health, max_health) ==
    IF max_health > 0 /\ Max(health, 0) * 100 < 35 * max_health THEN "Final"
    ELSE IF max_health > 0 /\ Max(health, 0) * 100 < 65 * max_health THEN "Second"
    ELSE phase

\* cooldown set after a volley
FireCooldown(phase) ==
    CASE phase = "Entry" -> (135 * UnitsPerSecond) \div 100
      [] phase = "Second" -> (95 * UnitsPerSecond) \div 100
      [] phase = "Final" -> (70 * UnitsPerSecond) \div 100

EnemyFireEvent(origin, dir, speed, dmg) ==
    [type |-> "EnemyFire", origin |-> origin, dir |-> dir, speed |-> speed,
     damage |-> dmg]

\* fire_boss_pattern: the shots of one volley.  A direction is its angle in
\* thousandths of a radian from straight down (Entry: atan(0.18 * offset)
\* =~ 178 * offset; Second: 120 * (i - 1)) or, for the radial burst, in
\* degrees from the x axis; speeds are in hundredths.
FireBossPattern(phase, origin, factor) ==
    CASE phase = "Entry" ->
           [i \in 1..3 |-> EnemyFireEvent(origin, [down |-> (i - 2) * 178],
                                          220 * factor, 1)]
      [] phase = "Second" ->
           [i \in 1..3 |-> EnemyFireEvent(origin, [down |-> (i - 2) * 120],
                                          260 * factor, 1)]
      [] phase = "Final" ->
           [i \in 1..6 |-> EnemyFireEvent(origin, [degrees |-> (i - 1) * 60],
                                          230 * factor, 1)]

Sign(a) == IF a > 0 THEN 1 ELSE IF a < 0 THEN -1 ELSE 0

\* The boss's transform and direction after the motion of its phase, on the
\* grid: Entry patrols one cell a tick and turns at the limits, Second
\* follows two sine terms (any cell of the band), Final closes in on the
\* player's x.
BossMoves(e, phase) ==
    CASE phase = "Entry" ->
           LET nx == e.pos[1] + e.control.direction
           IN IF nx > MaxCoord \/ nx < 0
              THEN {[x |-> Max(0, Min(nx, MaxCoord)), direction |-> 0 - e.control.direction]}
              ELSE {[x |-> nx, direction |-> e.control.direction]}
      [] phase = "Second" ->
           {[x |-> x, direction |-> e.control.direction] : x \in 0..MaxCoord}
      [] phase = "Final" ->
           {[x |-> e.pos[1] + s, direction |-> e.control.direction] :
              s \in {0, Sign((IF player.exists THEN player.pos[1] ELSE 0) - e.pos[1])}}

\* boss_movement_and_attacks
BossMovementAndAttacks ==
    /\ Ran("boss_movement_and_attacks")
    /\ IF Cardinality(BossIndices) # 1
       THEN /\ out' = <<>>
            /\ UNCHANGED enemies
       ELSE LET i == CHOOSE j \in BossIndices : TRUE
                e == enemies[i]
                timer == e.control.fire_timer - FixedDelta
                phase == NextPhase(e.control.phase, e.health, bossState.max_health)
            IN \E mv \in BossMoves(e, phase) :
                 LET pos == <<mv.x, TopRow>>
                 IN /\ enemies' = [enemies EXCEPT ![i] =
                          [e EXCEPT !.pos = pos,
                                    !.control = [phase |-> phase,
                                                 direction |-> mv.direction,
                                                 fire_timer |-> IF timer <= 0
                                                                THEN FireCooldown(phase)
                                                                ELSE timer]]]
                    /\ out' = IF timer <= 0
                              THEN FireBossPattern(phase, pos, EnemyBulletFactor(settings))
                              ELSE <<>>
    /\ ret' = <<>>
    /\ UNCHANGED <<appState, nextState, settings, stats, player, score, bullets,
                   shots, despawns, spawns, bossState, director, storyboard,
                   sched, credited, hits, fired,
                   gameOverRequested>>
    /\ UNCHANGED <<weaponState, powerups, twin, boot, spawnEvents>>

\* boss_health_tracker on BossState bs and WaveDirector dir, with bosses
\* the entities its query matches: the two resources after it and the cues
BossHealthTrackerResult(bs, dir, bosses, sb, d) ==
    IF Len(bosses) = 1
    THEN [bossState |-> [bs EXCEPT !.entity = bosses[1].id,
                                   !.health = Max(bosses[1].health, 0)],
          director |-> dir, cues |-> <<>>]
    ELSE IF bs.active
         THEN [bossState |-> [bs EXCEPT !.active = FALSE, !.entity = 0, !.health = 0,
                                        !.max_health = 0,
                                        !.spawn_score = bs.spawn_score
                                                          + BossSpawnScoreStep],
               director |-> AdvanceLevel([dir EXCEPT !.boss_active = FALSE], sb, d),
               cues |-> <<AudioCue("UiSelect")>>]
         ELSE [bossState |-> bs, director |-> dir, cues |-> <<>>]

BossHealthTracker ==
    /\ Ran("boss_health_tracker")
    /\ LET r == BossHealthTrackerResult(bossState, director,
                                        SelectSeq(enemies, HasControl),
                                        storyboard, settings)
       IN /\ bossState' = r.bossState
          /\ director' = r.director
          /\ out' = r.cues
    /\ ret' = <<>>
    /\ UNCHANGED <<appState, nextState, settings, stats, player, score, enemies,
                   bullets, shots, despawns, spawns, storyboard, sched,
                   credited, hits, fired,
                   gameOverRequested>>
    /\ UNCHANGED <<weaponState, powerups, twin, boot, spawnEvents>>

\* ------------------------------------------------------------ projectiles
PlayerFireEvent(origin, velocity, lifetime) ==
    [origin |-> origin, velocity |-> velocity, lifetime |-> lifetime]
\* the lifetime fire_weapon_pattern gives a shot of the Single and Double modes
ShotLifetime == (16 * UnitsPerSecond) \div 10
Cells == {<<x, y>> : x \in 0..MaxCoord, y \in 0..MaxCoord}
\* the PlayerFireEvents one run of spawn_player_projectiles can find unread:
\* none, or the volley fire_weapon_pattern sends from the player's position
\* in the Single (one shot) or the Double mode (two shots side by side)
FireEventSeqs ==
    IF player.exists
    THEN LET a == PlayerFireEvent(player.pos, Up, ShotLifetime)
         IN {<<>>, <<a>>, <<a, a>>}
    ELSE {<<>>}

NewBullet(id, ev) == [id |-> id, pos |-> ev.origin, half |-> NoHalf,
                      velocity |-> ev.velocity, lifetime |-> ev.lifetime,
                      l0 |-> ev.lifetime, age |-> 0]

\* spawn_player_projectiles: one Projectile per unread PlayerFireEvent
SpawnPlayerProjectiles ==
    /\ Ran("spawn_player_projectiles")
    /\ \E evs \in FireEventSeqs :
         /\ Len(bullets) + Len(SelectSeq(spawns, IsBulletSpawn)) + Len(evs) <= MaxBullets
         /\ fired + Len(evs) <= MaxFired
         /\ fired' = fired + Len(evs)
         /\ spawns' = spawns \o [i \in 1..Len(evs) |->
                                   [what |-> "bullet",
                                    entity |-> NewBullet(FreshIds(Len(evs))[i], evs[i])]]
    /\ out' = <<>> /\ ret' = <<>>
    /\ UNCHANGED <<appState, nextState, settings, stats, player, score, enemies,
                   bullets, shots, despawns, bossState, director, storyboard, sched,
                   credited, hits,
                   gameOverRequested>>
    /\ UNCHANGED <<weaponState, powerups, twin, boot, spawnEvents>>

\* ----------------------------------------------------- weapon and power-ups
\* WeaponMode, in the order of advance_mode
WeaponModes == <<"Single", "Double", "Spread3", "Spread5", "Laser">>
MaxFireRateLevel == 5
\* PlayerWeaponState::default and PlayerWeaponState::reset
DefaultWeaponState == [mode |-> "Single", fire_rate_level |-> 0]
ResetWeaponState(ws) == [ws EXCEPT !.mode = "Single", !.fire_rate_level = 0]

\* PlayerWeaponState::advance_mode
AdvanceMode(ws) ==
    [ws EXCEPT !.mode = CASE ws.mode = "Single" -> "Double"
                          [] ws.mode = "Double" -> "Spread3"
                          [] ws.mode = "Spread3" -> "Spread5"
                          [] ws.mode = "Spread5" -> "Laser"
                          [] ws.mode = "Laser" -> "Laser"]

\* PlayerWeaponState::boost_fire_rate: saturating_add(1).min(5) on a u8
BoostFireRate(ws) ==
    [ws EXCEPT !.fire_rate_level =
                  Min(Min(ws.fire_rate_level + 1, U8 - 1), MaxFireRateLevel)]

\* the kinds a PowerUp entity can have (powerups.rs)
PickupKinds == {"Spread", "Rapid", "Shield"}
SHIELD_INVULNERABILITY == 3 * UnitsPerSecond

\* faulty variant: Shield sets the window to the shield duration
ApplyPowerupSetsWindow(kind, ws, inv) ==
    [weapon |-> CASE kind = "Spread" -> AdvanceMode(ws)
                  [] kind = "Rapid" -> BoostFireRate(ws)
                  [] kind = "Shield" -> ws,
     inv |-> IF kind = "Shield" THEN SHIELD_INVULNERABILITY ELSE inv,
     cues |-> <<AudioCue("Pickup")>>]
\* apply_powerup: the weapon state, the invulnerability and the cue
ApplyPowerup(kind, ws, inv) ==
    [weapon |-> CASE kind = "Spread" -> AdvanceMode(ws)
                  [] kind = "Rapid" -> BoostFireRate(ws)
                  [] kind = "Shield" -> ws,
     inv |-> IF kind = "Shield" THEN Max(inv, SHIELD_INVULNERABILITY) ELSE inv,
     cues |-> <<AudioCue("Pickup")>>]

NewPowerUp(id, kind, pos) == [id |-> id, kind |-> kind, pos |-> pos, half |-> NoHalf]

\* index of the first power-up from i on that overlaps the player, or 0
RECURSIVE FirstPickup(_)
FirstPickup(i) ==
    IF i > Len(powerups) THEN 0
    ELSE IF Overlaps(player.pos, player.half, powerups[i].pos, powerups[i].half) THEN i
    ELSE FirstPickup(i + 1)

\* collect_powerups: the first power-up overlapping the player is applied
\* and despawned
CollectPowerups ==
    /\ Ran("collect_powerups")
    /\ IF ~player.exists \/ FirstPickup(1) = 0
       THEN /\ out' = <<>>
            /\ UNCHANGED <<weaponState, player, despawns>>
       ELSE LET pu == powerups[FirstPickup(1)]
                r == ApplyPowerup(pu.kind, weaponState, player.invulnerability)
            IN /\ weaponState' = r.weapon
               /\ player' = [player EXCEPT !.invulnerability = r.inv]
               /\ despawns' = despawns \cup {pu.id}
               /\ out' = r.cues
    /\ ret' = <<>>
    /\ UNCHANGED <<appState, nextState, settings, stats, score, enemies, bullets,
                   shots, spawns, bossState, director, storyboard, sched,
                   credited, hits, fired, gameOverRequested, powerups, twin, boot, spawnEvents>>

\* move_powerups: every power-up falls by speed * delta (one cell a tick)
\* and is despawned once below the bottom bound
MovePowerup(pu) == [pu EXCEPT !.pos = <<pu.pos[1], pu.pos[2] - 1>>]

MovePowerups ==
    /\ Ran("move_powerups")
    /\ powerups' = [i \in 1..Len(powerups) |-> MovePowerup(powerups[i])]
    /\ despawns' = despawns \cup
                   {powerups'[i].id : i \in {j \in 1..Len(powerups) :
                                               powerups'[j].pos[2] < 0}}
    /\ out' = <<>> /\ ret' = <<>>
    /\ UNCHANGED <<appState, nextState, settings, stats, player, score, enemies,
                   bullets, shots, spawns, bossState, director, storyboard, sched,
                   credited, hits, fired, gameOverRequested, weaponState, twin, boot, spawnEvents>>

\* ------------------------------------------------------------ app states
\* PlayerStats::reset (spawn_player) and PlayerStats::default
FreshStats == [health |-> 5, max_health |-> 5, lives |-> 3, max_lives |-> 3]
\* the Player entity spawn_player creates
FreshPlayer == [exists |-> TRUE, pos |-> PlayerSpawnPos, half |-> NoHalf,
                invulnerability |-> 0]
NoPlayer == [exists |-> FALSE, pos |-> PlayerSpawnPos, half |-> NoHalf,
             invulnerability |-> 0]

\* An input system of the Update schedule: runs between two fixed ticks and
\* is followed by the state transition of the next frame.
Input(state) ==
    /\ appState = state
    /\ sched = "fixed" /\ ran = {}
    /\ sched' = "transition"
    /\ out' = <<AudioCue("UiSelect")>> /\ ret' = <<>>
    /\ UNCHANGED <<appState, settings, stats, player, score, enemies, bullets,
                   shots, despawns, spawns, bossState, director,
                   storyboard, ran, synced, credited, hits, fired, gameOverRequested>>
    /\ UNCHANGED <<weaponState, powerups, twin, boot, spawnEvents>>

\* title_input with Space or Enter just pressed
TitleInput == Input("Title") /\ nextState' = "Playing" /\ last' = "title_input"
\* pause_input with Escape or P just pressed
PauseInput == Input("Playing") /\ nextState' = "Paused" /\ last' = "pause_input"
\* resume_input with Escape, P or Space just pressed
ResumeInput == Input("Paused") /\ nextState' = "Playing" /\ last' = "resume_input"
\* game_over_input with Enter or Space just pressed
GameOverInput == Input("GameOver") /\ nextState' = "Title" /\ last' = "game_over_input"

\* faulty variant: the cleanup spares the boss
CleanupSparesBoss(ens) == SelectSeq(ens, HasControl)
\* cleanup_enemies / reset_enemies: every entity with an Enemy component is
\* despawned (the boss has one)
CleanupEnemies(ens) == SubSeq(ens, 1, 0)
\* cleanup_projectiles: every Projectile and every EnemyProjectile
CleanupProjectiles(prs) == SubSeq(prs, 1, 0)
\* cleanup_powerups: every PowerUp
CleanupPowerups(pus) == SubSeq(pus, 1, 0)

\* faulty variant: the score is reset on every entry into play as well
ResetScoreboardOnPlay(sc, entered) == IF entered \in {"Title", "Playing"} THEN 0 ELSE sc
\* reset_scoreboard, an OnEnter(Title) system: the score after the
\* transition into the state entered
ResetScoreboard(sc, entered) == IF entered = "Title" THEN 0 ELSE sc

\* The StateTransition schedule with a pending NextState: OnExit of the
\* state left, then OnEnter of the state entered, commands applied.
\*   OnExit(Playing): despawn_player, cleanup_enemies, cleanup_projectiles,
\*                    cleanup_powerups, clear_waves
\*   OnEnter(Playing): spawn_player, reset_enemies, reset_waves,
\*                     reset_boss_state
\*   OnEnter(Title): reset_scoreboard
StateTransition ==
    /\ ran = {}
    /\ nextState # NoState
    /\ nextState # appState
    /\ appState' = nextState
    /\ nextState' = NoState
    /\ sched' = "fixed"
    /\ LET leaving == appState = "Playing"
           entering == nextState = "Playing"
           d1 == IF leaving THEN [director EXCEPT !.timer = TimerReset(director.timer)]
                 ELSE director
       IN /\ enemies' = IF leaving \/ entering THEN CleanupEnemies(enemies) ELSE enemies
          /\ bullets' = IF leaving THEN CleanupProjectiles(bullets) ELSE bullets
          /\ shots' = IF leaving THEN CleanupProjectiles(shots) ELSE shots
          /\ powerups' = IF leaving THEN CleanupPowerups(powerups) ELSE powerups
          /\ weaponState' = IF entering THEN ResetWeaponState(weaponState)
                            ELSE weaponState
          /\ player' = IF entering THEN FreshPlayer
                       ELSE IF leaving THEN NoPlayer ELSE player
          /\ stats' = IF entering THEN FreshStats ELSE stats
          /\ gameOverRequested' = IF entering THEN FALSE ELSE gameOverRequested
          /\ director' = IF entering THEN ResetWaves(d1, storyboard, settings) ELSE d1
          /\ bossState' = IF entering THEN ResetBossState(bossState) ELSE bossState
          /\ score' = ResetScoreboard(score, nextState)
    /\ last' = "state_transition"
    /\ out' = <<>> /\ ret' = <<>>
    /\ UNCHANGED <<settings, despawns, spawns, storyboard, ran, synced,
                   credited, hits, fired, twin, boot, spawnEvents>>

\* ------------------------------------------------------------ populations
\* sequences of at most n elements of S
RECURSIVE SeqsUpTo(_, _)
SeqsUpTo(S, n) ==
    IF n = 0 THEN {<<>>}
    ELSE LET shorter == SeqsUpTo(S, n - 1)
         IN shorter \cup {Append(q, x) : q \in {r \in shorter : Len(r) = n - 1}, x \in S}

\* the u8 damage argument of handle_player_hit; the spawners of this build
\* set the damage field to 1
DamageValues == 0..MaxDamage

\* the PlayerStats a run can be in between two hits: damage of 1 reaches
\* every health of every life
StatsInPlay == {[FreshStats EXCEPT !.health = h, !.lives = l] :
                   h \in 1..FreshStats.max_health, l \in 1..FreshStats.max_lives}

\* the entities get the ids 1, 2, ... in the order enemies, shots
WithIds(seq, from) == [i \in 1..Len(seq) |-> [seq[i] EXCEPT !.id = from + i]]

NewShot(id, pos, dmg) == [id |-> id, pos |-> pos, half |-> NoHalf, damage |-> dmg]

\* A state of play between two fixed ticks: difficulty d, storyboard sb,
\* the given score, stats, entities, boss encounter and director.
WorldOf(pl, d, sb, sc, st, ens, shs, bs, dir) ==
    /\ appState = "Playing"
    /\ nextState = NoState
    /\ settings = d
    /\ stats = st
    /\ player = pl
    /\ score = sc
    /\ enemies = ens
    /\ bullets = <<>>
    /\ shots = shs
    /\ despawns = {}
    /\ spawns = <<>>
    /\ bossState = bs
    /\ director = dir
    /\ storyboard = sb
    /\ sched = "fixed"
    /\ ran = {}
    /\ synced = {}
    /\ last = "state_transition"
    /\ out = <<>>
    /\ ret = <<>>
    /\ credited = <<>>
    /\ hits = <<>>
    /\ fired = 0
    /\ gameOverRequested = FALSE
    /\ spawnEvents = <<>>
World(d, sb, sc, st, ens, shs, bs, dir) ==
    WorldOf(FreshPlayer, d, sb, sc, st, ens, shs, bs, dir)

\* The same as spawn_player leaves the weapon, with no power-up in the world.
InPlayWith(d, sb, sc, st, ens, shs, bs, dir) ==
    /\ World(d, sb, sc, st, ens, shs, bs, dir)
    /\ weaponState = DefaultWeaponState
    /\ powerups = <<>>
    /\ twin = NoTwin
    /\ boot = NoBoot

\* The same with no boss encounter and the director as OnEnter(Playing)
\* leaves it.
InPlay(d, sb, sc, st, ens, shs) ==
    InPlayWith(d, sb, sc, st, WithIds(ens, 0), WithIds(shs, Len(ens)),
               DefaultBossState, ResetWaves(DefaultDirector, sb, d))

\* ------------------------------------------------------------------ specs
\* Player hit handling: enemies and enemy shots around the player, each
\* with a damage value.
PlayerSystems == {"tick_player_invulnerability", "player_enemy_collisions",
                  "enemy_projectile_player_collisions"}
NearPlayer == {PlayerSpawnPos, <<MaxCoord, 0>>}
InitPlayer ==
    \E ens \in SeqsUpTo({NewEnemy(0, "Grunt", p, drop, dmg, "Normal") :
                            p \in NearPlayer, dmg \in DamageValues,
                            drop \in {NoDrop, "Shield"}}, MaxEnemies),
       shs \in SeqsUpTo({NewShot(0, p, dmg) : p \in NearPlayer, dmg \in DamageValues},
                        MaxShots),
       st \in StatsInPlay :
        InPlay("Normal", SmallStoryboard, 0, st, ens, shs)
EndTickPlayer == EndTick(PlayerSystems) /\ UNCHANGED <<twin, boot>>
NextPlayer ==
    \/ TickPlayerInvulnerability
    \/ PlayerEnemyCollisions
    \/ EnemyProjectilePlayerCollisions
    \/ ApplyDeferred
    \/ EndTickPlayer
    \/ PauseInput
    \/ ResumeInput
    \/ GameOverInput
    \/ TitleInput
    \/ StateTransition
SpecPlayer == InitPlayer /\ [][NextPlayer]_vars

\* Combat: enemies in the top row of the grid and the player's bullets
\* fired at them.
CombatSystems == {"spawn_player_projectiles", "advance_player_projectiles",
                  "expire_player_projectiles", "projectile_enemy_collisions"}
TopCells == {c \in Cells : c[2] = TopRow}
CombatKinds == {"Grunt", "Sine"}
InitCombat ==
    \E d \in Difficulties :
       \E ens \in SeqsUpTo({NewEnemy(0, k, p, drop, 1, d) :
                               k \in CombatKinds, p \in TopCells,
                               drop \in {NoDrop, "Shield"}}, MaxEnemies) :
          InPlay(d, SmallStoryboard, 0, FreshStats, ens, <<>>)
EndTickCombat == EndTick(CombatSystems) /\ UNCHANGED <<twin, boot>>
NextCombat ==
    \/ SpawnPlayerProjectiles
    \/ AdvancePlayerProjectiles
    \/ ExpirePlayerProjectiles
    \/ ProjectileEnemyCollisions
    \/ ApplyDeferred
    \/ EndTickCombat
SpecCombat == InitCombat /\ [][NextCombat]_vars

\* The boss encounter and the wave director, around the spawn threshold.
BossSystems == {"drive_waves", "trigger_boss_spawn", "boss_movement_and_attacks",
                "boss_health_tracker"}
InitBoss ==
    \E d \in Difficulties, sc \in {BossSpawnScoreStep - ScoreValue("Grunt"),
                                   BossSpawnScoreStep} :
       InPlay(d, SmallStoryboard, sc, FreshStats, <<>>, <<>>)
EndTickBoss == EndTick(BossSystems) /\ UNCHANGED <<twin, boot>>
NextBoss ==
    \/ DriveWaves
    \/ TriggerBossSpawn
    \/ BossMovementAndAttacks
    \/ BossHealthTracker
    \/ ApplyDeferred
    \/ EndTickBoss
SpecBoss == InitBoss /\ [][NextBoss]_vars

\* The boss under fire: the encounter from the tick the threshold is reached.
PhaseSystems == {"trigger_boss_spawn", "boss_movement_and_attacks",
                 "boss_health_tracker", "spawn_player_projectiles",
                 "advance_player_projectiles", "expire_player_projectiles",
                 "projectile_enemy_collisions"}
\* boss healths at the two phase thresholds (the lowest health of Entry
\* and of Second), and a boss about to fall
EntryFloor == (65 * BossMaxHealth) \div 100
SecondFloor == (35 * BossMaxHealth) \div 100
HealthSamples == {EntryFloor, SecondFloor, 2}

\* the boss of an encounter worn down to health h by bullets (the hits
\* history starts here), moved into the phase ph, after a volley
WornBoss(h, ph) ==
    [NewBoss(1) EXCEPT !.health = h, !.h0 = h,
                       !.control = [phase |-> ph, direction |-> 1,
                                    fire_timer |-> FireCooldown(ph)]]

\* BossState and WaveDirector as trigger_boss_spawn leaves them, with the
\* health boss_health_tracker last saw
EngagedState(h) == [DefaultBossState EXCEPT !.active = TRUE, !.entity = 1,
                                            !.max_health = BossMaxHealth,
                                            !.health = h]
EngagedDirector(sb, d) == [ResetWaves(DefaultDirector, sb, d) EXCEPT !.boss_active = TRUE]

\* BossState and WaveDirector when boss_health_tracker ran in the spawn tick
\* after trigger_boss_spawn and before the boss was in the world (it found
\* no boss and cleared the encounter; SpecBoss reaches this with the boss
\* at full health), with the health the tracker last saw
ClearedEarlyState(h) ==
    [DefaultBossState EXCEPT !.entity = 1, !.health = h,
                             !.spawn_score = BossSpawnScoreStep + BossSpawnScoreStep]
ClearedEarlyDirector(sb, d) == AdvanceLevel(ResetWaves(DefaultDirector, sb, d), sb, d)

InitPhase ==
    \/ InPlay("Normal", SmallStoryboard, BossSpawnScoreStep, FreshStats, <<>>, <<>>)
    \/ \E h \in HealthSamples :
          InPlayWith("Normal", SmallStoryboard, BossSpawnScoreStep, FreshStats,
                     <<WornBoss(h, NextPhase("Entry", h, BossMaxHealth))>>, <<>>,
                     EngagedState(h), EngagedDirector(SmallStoryboard, "Normal"))
    \/ \E h \in {EntryFloor, SecondFloor} :
          InPlayWith("Normal", SmallStoryboard, BossSpawnScoreStep, FreshStats,
                     <<WornBoss(h, "Entry")>>, <<>>,
                     ClearedEarlyState(h),
                     ClearedEarlyDirector(SmallStoryboard, "Normal"))
EndTickPhase == EndTick(PhaseSystems) /\ UNCHANGED <<twin, boot>>
NextPhaseStep ==
    \/ TriggerBossSpawn
    \/ BossMovementAndAttacks
    \/ BossHealthTracker
    \/ SpawnPlayerProjectiles
    \/ AdvancePlayerProjectiles
    \/ ExpirePlayerProjectiles
    \/ ProjectileEnemyCollisions
    \/ ApplyDeferred
    \/ EndTickPhase
SpecPhase == InitPhase /\ [][NextPhaseStep]_vars

\* A whole run: an encounter about to be won, an enemy on the player, an
\* enemy shot and a power-up out of the player's reach, and the way out of
\* play and back (pause, game over, title).  The boss, in its last phase,
\* is above the player or has followed the player down onto it.
RunSystems == {"trigger_boss_spawn", "boss_health_tracker",
               "spawn_player_projectiles", "advance_player_projectiles",
               "projectile_enemy_collisions", "player_enemy_collisions"}
LastLife == [FreshStats EXCEPT !.health = 1, !.lives = 1]
BossPlaces == {BossSpawnPos, PlayerSpawnPos}
InitRun ==
    \E st \in {FreshStats, LastLife}, bp \in BossPlaces :
       /\ World("Normal", SmallStoryboard, BossSpawnScoreStep, st,
                <<[WornBoss(1, NextPhase("Entry", 1, BossMaxHealth)) EXCEPT !.pos = bp],
                  NewEnemy(2, "Grunt", PlayerSpawnPos, NoDrop, 1, "Normal")>>,
                <<NewShot(3, <<MaxCoord, 0>>, 1)>>,
                EngagedState(1), EngagedDirector(SmallStoryboard, "Normal"))
       /\ weaponState = DefaultWeaponState
       /\ powerups = <<NewPowerUp(4, "Shield", <<MaxCoord, MaxCoord>>)>>
       /\ twin = NoTwin
       /\ boot = NoBoot
EndTickRun == EndTick(RunSystems) /\ UNCHANGED <<twin, boot>>
NextRun ==
    \/ TriggerBossSpawn
    \/ BossHealthTracker
    \/ SpawnPlayerProjectiles
    \/ AdvancePlayerProjectiles
    \/ ProjectileEnemyCollisions
    \/ PlayerEnemyCollisions
    \/ ApplyDeferred
    \/ EndTickRun
    \/ PauseInput
    \/ ResumeInput
    \/ GameOverInput
    \/ TitleInput
    \/ StateTransition
SpecRun == InitRun /\ [][NextRun]_vars

\* The wave director over the levels of a storyboard file: waves, boss
\* encounters that end the tick they start (the tracker running before the
\* boss spawn is applied) or stay, and pause and resume as inputs.
LevelSystems == {"drive_waves", "trigger_boss_spawn", "boss_health_tracker"}
\* the director one wave into the run: drive_waves with the timer about to
\* finish
AfterFirstWave(dir, sb, d) ==
    DriveWavesResult([dir EXCEPT !.timer.elapsed = dir.timer.duration - 1],
                     sb, d).director
InitLevels ==
    \E d \in Difficulties, sb \in {SmallStoryboard, HollowStoryboard},
       sc \in {0, BossSpawnScoreStep} :
       \E dir \in {ResetWaves(DefaultDirector, sb, d)} \cup
                   (IF Len(sb[1].waves) > 0
                    THEN {AfterFirstWave(ResetWaves(DefaultDirector, sb, d), sb, d)}
                    ELSE {}) :
       /\ World(d, sb, sc, FreshStats, <<>>, <<>>, DefaultBossState, dir)
       /\ weaponState = DefaultWeaponState
       /\ powerups = <<>>
       /\ twin = NoTwin
       /\ boot = NoBoot
EndTickLevels == EndTick(LevelSystems) /\ UNCHANGED <<twin, boot>>
NextLevels ==
    \/ DriveWaves
    \/ TriggerBossSpawn
    \/ BossHealthTracker
    \/ ApplyDeferred
    \/ EndTickLevels
    \/ PauseInput
    \/ ResumeInput
    \/ StateTransition
SpecLevels == InitLevels /\ [][NextLevels]_vars

\* The wave director alone, running the built-in storyboard at each
\* difficulty until the difficulty accumulator reaches MaxDifficulty.
WaveSystems == {"drive_waves"}
InitWaves ==
    \E d \in Difficulties :
       /\ World(d, DefaultStoryboard, 0, FreshStats, <<>>, <<>>, DefaultBossState,
                ResetWaves(DefaultDirector, DefaultStoryboard, d))
       /\ weaponState = DefaultWeaponState
       /\ powerups = <<>>
       /\ twin = NoTwin
       /\ boot = NoBoot
EndTickWaves == EndTick(WaveSystems) /\ UNCHANGED <<twin, boot>>
NextWaves ==
    \/ DriveWaves
    \/ EndTickWaves
SpecWaves == InitWaves /\ [][NextWaves]_vars

\* Lane waves of every shape: up to MaxLanes lanes, the power-up lane index
\* absent (NoLevel), in range or past the last lane, with and without a
\* power-up, on and below the top line.  The storyboard is the one wave.
MaxLanes == 3
LaneXs == {-360, 0}
LaneIndices == {NoLevel} \cup (0..MaxLanes)
YOffsets == {0, 60}
LaneWaves == {Lane(UnitsPerSecond, "Grunt", lanes, y, Straight(160, TRUE), pu, idx) :
                 lanes \in SeqsUpTo(LaneXs, MaxLanes), y \in YOffsets,
                 pu \in {NoDrop, "Rapid"}, idx \in LaneIndices}
InitLanes ==
    \E w \in LaneWaves :
       LET sb == << [waves |-> <<w>>] >>
       IN /\ World("Normal", sb, 0, FreshStats, <<>>, <<>>, DefaultBossState,
                   ResetWaves(DefaultDirector, sb, "Normal"))
          /\ weaponState = DefaultWeaponState
          /\ powerups = <<>>
          /\ twin = NoTwin
          /\ boot = NoBoot
EndTickLanes == EndTick(WaveSystems) /\ UNCHANGED <<twin, boot>>
NextLanes ==
    \/ DriveWaves
    \/ EndTickLanes
SpecLanes == InitLanes /\ [][NextLanes]_vars

\* The two projectile chains alone: the player fires upwards, enemy shots
\* come from the top row in any of the directions.
ProjectileSystems == {"spawn_player_projectiles", "advance_player_projectiles",
                      "expire_player_projectiles", "spawn_enemy_projectiles",
                      "advance_enemy_projectiles", "expire_enemy_projectiles"}
InitProjectiles == InPlay("Normal", SmallStoryboard, 0, FreshStats, <<>>, <<>>)
EndTickProjectiles == EndTick(ProjectileSystems) /\ UNCHANGED <<twin, boot>>
NextProjectiles ==
    \/ SpawnPlayerProjectiles
    \/ AdvancePlayerProjectiles
    \/ ExpirePlayerProjectiles
    \/ SpawnEnemyProjectiles
    \/ AdvanceEnemyProjectiles
    \/ ExpireEnemyProjectiles
    \/ ApplyDeferred
    \/ EndTickProjectiles
SpecProjectiles == InitProjectiles /\ [][NextProjectiles]_vars
\* FixedUpdate keeps running while the game is in play
FairProjectiles == SpecProjectiles /\ WF_vars(NextProjectiles)

\* The ways an enemy leaves the world: a column of enemies comes down on the
\* player, who fires or not; an enemy is shot, rams the player or passes
\* the bottom bound; play is left for pause, game over and title.
ScoreSystems == {"spawn_player_projectiles", "advance_player_projectiles",
                 "projectile_enemy_collisions", "player_enemy_collisions",
                 "move_enemies", "cleanup_offscreen_enemies"}
InitScore ==
    \E st \in {FreshStats, LastLife}, drop \in {NoDrop, "Shield"} :
       InPlay("Normal", SmallStoryboard, 0, st,
              <<NewEnemy(0, "Grunt", <<0, TopRow>>, drop, 1, "Normal"),
                NewEnemy(0, "Sine", <<0, TopRow + 1>>, NoDrop, 1, "Normal")>>, <<>>)
EndTickScore == EndTick(ScoreSystems) /\ UNCHANGED <<twin, boot>>
NextScore ==
    \/ SpawnPlayerProjectiles
    \/ AdvancePlayerProjectiles
    \/ ProjectileEnemyCollisions
    \/ PlayerEnemyCollisions
    \/ MoveEnemies
    \/ CleanupOffscreenEnemies
    \/ ApplyDeferred
    \/ EndTickScore
    \/ PauseInput
    \/ ResumeInput
    \/ GameOverInput
    \/ TitleInput
    \/ StateTransition
SpecScore == InitScore /\ [][NextScore]_vars

\* The wave director and the enemy spawner, in either order within a tick,
\* with pauses.
SpawnSystems == {"drive_waves", "spawn_enemies_from_events"}
InitSpawn ==
    \E d \in Difficulties : InPlay(d, SmallStoryboard, 0, FreshStats, <<>>, <<>>)
EndTickSpawn == EndTick(SpawnSystems) /\ UNCHANGED <<twin, boot>>
NextSpawn ==
    \/ DriveWaves
    \/ SpawnEnemiesFromEvents
    \/ ApplyDeferred
    \/ EndTickSpawn
    \/ PauseInput
    \/ ResumeInput
    \/ StateTransition
    \/ IdleFrame
SpecSpawn == InitSpawn /\ [][NextSpawn]_vars

\* The wave director and the boss encounter over storyboards with no
\* levels or with a level that has no waves, at the first level or the
\* second, the score below or at the first boss threshold, no encounter
\* yet or the encounter's boss just shot down.
EmptyStoryboards == {EmptyStoryboard, HollowStoryboard, TrailingHollow}
\* the encounter as boss_health_tracker finds it after the boss was shot
\* down and its despawn applied
BossFallen == [active |-> TRUE, entity |-> 1, max_health |-> BossMaxHealth, health |-> 1,
               spawn_score |-> BossSpawnScoreStep]
InitEmpty ==
    \E d \in Difficulties, sb \in EmptyStoryboards, sc \in {0, BossSpawnScoreStep},
       fallen \in BOOLEAN, advanced \in BOOLEAN :
       LET start == ResetWaves(DefaultDirector, sb, d)
           dir == IF advanced THEN AdvanceLevel(start, sb, d) ELSE start
       IN /\ fallen => sc = BossSpawnScoreStep
          /\ World(d, sb, sc, FreshStats, <<>>, <<>>,
                   IF fallen THEN BossFallen ELSE DefaultBossState,
                   [dir EXCEPT !.boss_active = fallen])
       /\ weaponState = DefaultWeaponState
       /\ powerups = <<>>
       /\ twin = NoTwin
       /\ boot = NoBoot
EndTickEmpty == EndTick(LevelSystems) /\ UNCHANGED <<twin, boot>>
NextEmpty ==
    \/ DriveWaves
    \/ TriggerBossSpawn
    \/ BossHealthTracker
    \/ ApplyDeferred
    \/ EndTickEmpty
    \/ PauseInput
    \/ ResumeInput
    \/ StateTransition
SpecEmpty == InitEmpty /\ [][NextEmpty]_vars

\* Start-up with any of the storyboard files, then the wave director alone.
InitBoot ==
    \E d \in Difficulties, file \in StoryboardFiles :
       LET b == Build(file)
       IN /\ World(d, b.storyboard, 0, FreshStats, <<>>, <<>>, DefaultBossState,
                   ResetWaves(DefaultDirector, b.storyboard, d))
          /\ weaponState = DefaultWeaponState
          /\ powerups = <<>>
          /\ twin = NoTwin
          /\ boot = b.boot
EndTickBoot == EndTick(WaveSystems) /\ UNCHANGED <<twin, boot>>
NextBoot ==
    \/ DriveWaves
    \/ EndTickBoot
SpecBoot == InitBoot /\ [][NextBoot]_vars

\* Power-ups falling onto the player: up to MaxPowerups of any kinds stacked
\* above the player's cell, the weapon at any mode and fire-rate level that
\* pickups can have produced, with pause and resume as inputs.
MaxPowerups == 3
PowerupSystems == {"collect_powerups", "move_powerups",
                   "tick_player_invulnerability"}
\* windows of invulnerability at the start: none, the one a hit leaves, and
\* one longer than a shield's, which PlayerDefense.invulnerability can hold
\* and apply_powerup must not shorten
InvulnerabilityWindows ==
    {0, (16 * UnitsPerSecond) \div 10, SHIELD_INVULNERABILITY + UnitsPerSecond}
FireRateLevels == 0..MaxFireRateLevel
PowerupColumn(kinds) ==
    [i \in 1..Len(kinds) |->
        NewPowerUp(i, kinds[i], <<PlayerSpawnPos[1], PlayerSpawnPos[2] + i - 1>>)]
InitPowerups ==
    \E n \in 1..MaxPowerups, m \in DOMAIN WeaponModes, l \in FireRateLevels :
       \E kinds \in [1..n -> PickupKinds], inv \in InvulnerabilityWindows :
          /\ WorldOf([FreshPlayer EXCEPT !.invulnerability = inv],
                     "Normal", SmallStoryboard, 0, FreshStats, <<>>, <<>>,
                     DefaultBossState,
                     ResetWaves(DefaultDirector, SmallStoryboard, "Normal"))
          /\ weaponState = [mode |-> WeaponModes[m], fire_rate_level |-> l]
          /\ powerups = PowerupColumn(kinds)
          /\ twin = NoTwin
          /\ boot = NoBoot
EndTickPowerups == EndTick(PowerupSystems) /\ UNCHANGED <<twin, boot>>
NextPowerups ==
    \/ CollectPowerups
    \/ MovePowerups
    \/ TickPlayerInvulnerability
    \/ ApplyDeferred
    \/ EndTickPowerups
    \/ PauseInput
    \/ ResumeInput
    \/ StateTransition
SpecPowerups == InitPowerups /\ [][NextPowerups]_vars

\* Two executions of the wave director and the boss systems from the same
\* state with the same inputs.  The first runs the systems of a tick one
\* by one in any order the schedule allows; the second (twin) runs them in
\* the order boss_health_tracker, trigger_boss_spawn, drive_waves, which is
\* one of these orders, and has its commands applied at the end of the tick.
TwinSystems == {"drive_waves", "trigger_boss_spawn", "boss_health_tracker"}
TwinOf(bs, dir, ens) == [bossState |-> bs, director |-> dir, enemies |-> ens]
TwinTick(t, sc, sb, d) ==
    LET a == BossHealthTrackerResult(t.bossState, t.director,
                                     SelectSeq(t.enemies, HasControl), sb, d)
        b == TriggerBossSpawnResult(a.bossState, a.director, sc,
                 LowestFree({t.enemies[i].id : i \in DOMAIN t.enemies}, 1))
        c == DriveWavesResult(b.director, sb, d)
    IN TwinOf(b.bossState, c.director, t.enemies \o b.spawned)
InitTwin ==
    \E d \in Difficulties, sc \in {BossSpawnScoreStep - ScoreValue("Grunt"),
                                   BossSpawnScoreStep} :
       /\ World(d, SmallStoryboard, sc, FreshStats, <<>>, <<>>,
                DefaultBossState, ResetWaves(DefaultDirector, SmallStoryboard, d))
       /\ weaponState = DefaultWeaponState
       /\ powerups = <<>>
       /\ twin = TwinOf(bossState, director, enemies)
       /\ boot = NoBoot
EndTickTwin ==
    /\ EndTick(TwinSystems)
    /\ LET t == TwinTick(twin, score, storyboard, settings)
       IN /\ t.director.difficulty <= MaxDifficulty
          /\ twin' = t
    /\ UNCHANGED boot
NextTwin ==
    \/ DriveWaves
    \/ TriggerBossSpawn
    \/ BossHealthTracker
    \/ ApplyDeferred
    \/ EndTickTwin
SpecTwin == InitTwin /\ [][NextTwin]_vars

\* ------------------------------------------------------ the boss encounter

\* C8: while the boss encounter is active a run of drive_waves sends no
\* enemy-spawn request, does not advance the wave timer and leaves
\* wave_index, difficulty and pending_level as they are; at every tick
\* boundary WaveDirector.boss_active equals BossState.active.
C8_WavesSuspendedByBoss ==
    [][/\ (last' = "drive_waves" /\ ran' # ran /\ bossState.active) =>
             /\ Count(out', IsSpawnEnemy) = 0
             /\ director'.timer = director.timer
             /\ director'.wave_index = director.wave_index
             /\ director'.difficulty = director.difficulty
             /\ director'.pending_level = director.pending_level
       /\ ran' = {} => (director'.boss_active = bossState'.active)]_vars

\* drive_waves ran during an encounter whose boss is in the world, with a
\* wave timer that has time left
C8_Witness ==
    /\ last = "drive_waves"
    /\ bossState.active
    /\ director.boss_active
    /\ BossIndices # {}
    /\ ~director.timer.finished
    /\ out = <<>>

\* the boss spawn commands queued by this step
NewSpawns == SubSeq(spawns', Len(spawns) + 1, Len(spawns'))

\* C9: a run of trigger_boss_spawn with the score at or above the threshold
\* and no encounter active spawns exactly one Boss with health = max_health =
\* 200 at every difficulty, in phase Entry, makes the encounter active and
\* suspends the WaveDirector; otherwise it spawns nothing.
C9_BossSpawnAtThreshold ==
    [][(last' = "trigger_boss_spawn" /\ ran' # ran) =>
          IF score >= bossState.spawn_score /\ ~bossState.active
          THEN /\ Len(NewSpawns) = 1
               /\ NewSpawns[1].what = "enemy"
               /\ NewSpawns[1].entity.kind = "Boss"
               /\ NewSpawns[1].entity.health = 200
               /\ NewSpawns[1].entity.control.phase = "Entry"
               /\ bossState'.max_health = 200
               /\ bossState'.health = 200
               /\ bossState'.active
               /\ director'.boss_active
          ELSE /\ spawns' = spawns
               /\ bossState' = bossState
               /\ director' = director]_vars

\* the boss was just requested on Hard, at a score equal to the threshold
C9_Witness ==
    /\ last = "trigger_boss_spawn"
    /\ settings = "Hard"
    /\ score = bossState.spawn_score
    /\ bossState.active
    /\ director.boss_active
    /\ Len(spawns) = 1
    /\ spawns[1].entity.kind = "Boss"

\* the phase the ratio health / 200 stands for
PhaseByRatio(health) ==
    IF Max(health, 0) * 100 < 35 * 200 THEN "Final"
    ELSE IF Max(health, 0) * 100 < 65 * 200 THEN "Second"
    ELSE "Entry"
PhaseRank(ph) == CASE ph = "Entry" -> 1 [] ph = "Second" -> 2 [] ph = "Final" -> 3

\* the boss as the step finds it and as it leaves it
BossBefore == enemies[CHOOSE i \in BossIndices : TRUE]
BossAfter == enemies'[CHOOSE i \in DOMAIN enemies' : HasControl(enemies'[i])]

\* C10: after every update by boss_movement_and_attacks the phase is the one
\* of the ratio health / max_health (Final below 0.35, else Second below
\* 0.65, else Entry, with max_health 200), and the phase of a boss never
\* moves back to an earlier one.
C10_PhaseFollowsRatio ==
    [][(Cardinality(BossIndices) = 1
          /\ \E i \in DOMAIN enemies' : HasControl(enemies'[i])) =>
         /\ (last' = "boss_movement_and_attacks" /\ ran' # ran) =>
               BossAfter.control.phase = PhaseByRatio(BossBefore.health)
         /\ BossAfter.id = BossBefore.id =>
               PhaseRank(BossAfter.control.phase) >= PhaseRank(BossBefore.control.phase)]_vars

\* ------------------------------------------------------ bullets on enemies
\* this step is a run of projectile_enemy_collisions
BulletPassStep == last' = "projectile_enemy_collisions" /\ ran' # ran

\* the bullets whose scan of the enemies stops at enemy i: i is the first
\* enemy in query order the bullet overlaps
MatchedTo(i) ==
    {b \in DOMAIN bullets :
        /\ Overlaps(enemies[i].pos, enemies[i].half, bullets[b].pos, bullets[b].half)
        /\ \A j \in 1..(i - 1) :
              ~Overlaps(enemies[j].pos, enemies[j].half, bullets[b].pos, bullets[b].half)}

\* the requests in evs sent for the entity id
SentFor(evs, id) == {k \in DOMAIN evs :
                        evs[k].type \in {"Explosion", "SpawnPowerUp"} /\ evs[k].src = id}

RECURSIVE ScoreOfDestroyed(_)
\* what this step's bullet pass owes: the score of every enemy it brought
\* from health > 0 to health <= 0, among the first i enemies
ScoreOfDestroyed(i) ==
    IF i = 0 THEN 0
    ELSE ScoreOfDestroyed(i - 1)
         + (IF enemies[i].health > 0 /\ enemies'[i].health <= 0
            THEN enemies[i].score ELSE 0)

\* C1: when player bullets destroy an enemy the scoreboard grows by that
\* enemy's score value exactly once, however many bullets are matched to
\* the enemy in the same run of projectile_enemy_collisions.
C1_ScoreCreditedOnce ==
    [][BulletPassStep =>
         /\ score' - score = ScoreOfDestroyed(Len(enemies))
         /\ \A i \in DOMAIN enemies :
               (enemies[i].health > 0 /\ enemies'[i].health <= 0) =>
                  Get(credited', enemies[i].id) = enemies[i].score]_vars

\* C2: an enemy of initial health H hit by N < H bullets still exists with
\* health H - N, no score was credited for it and no explosion or power-up
\* was requested for it; each matched bullet lowers health by exactly 1.
C2_PartialDamage ==
    [][\A i \in DOMAIN enemies :
          LET e == enemies[i]
              n == Get(hits', e.id)
          IN /\ BulletPassStep =>
                   /\ n - Get(hits, e.id) = Cardinality(MatchedTo(i))
                   /\ enemies'[i].health = e.health - Cardinality(MatchedTo(i))
                   /\ enemies'[i].health = e.h0 - n
                   /\ n < e.h0 =>
                         /\ e.id \notin despawns'
                         /\ Get(credited', e.id) = 0
                         /\ SentFor(out', e.id) = {}
             /\ n < e.h0 => \E j \in DOMAIN enemies' : enemies'[j].id = e.id]_vars

\* an enemy of initial health 3 has taken two bullets and is still there
C2_Witness ==
    /\ last = "projectile_enemy_collisions"
    /\ \E i \in DOMAIN enemies :
          /\ enemies[i].h0 = 3
          /\ Get(hits, enemies[i].id) = 2
          /\ enemies[i].health = 1
          /\ enemies[i].id \notin despawns

\* ----------------------------------------------------- player hit handling
HitPasses == {"player_enemy_collisions", "enemy_projectile_player_collisions"}

\* this step is a run of one of the two passes that call handle_player_hit
HitPassStep == last' \in HitPasses /\ ran' # ran /\ player.exists

\* the entities the pass that runs in this step iterates over
Targets == IF last' = "player_enemy_collisions" THEN enemies ELSE shots

\* how many of them overlap the player: the calls a pass makes while every
\* call is ignored
OverlapCount == Cardinality({i \in DOMAIN Targets :
                    Overlaps(player.pos, player.half, Targets[i].pos, Targets[i].half)})

\* this step's pass had a call accepted
AcceptedHit == HitPassStep /\ Len(ret') > 0 /\ ret'[Len(ret')]

\* the damage values of the entities this step queued for despawn: the
\* argument of the accepted call
StruckDamage == {enemies[i].damage : i \in {j \in DOMAIN enemies :
                                             enemies[j].id \in despawns' \ despawns}}
                \cup {shots[i].damage : i \in {j \in DOMAIN shots :
                                             shots[j].id \in despawns' \ despawns}}

\* C3: a call of handle_player_hit while invulnerability > 0 changes neither
\* health, lives, invulnerability nor the requested app state, sends no hit
\* cue and no life-lost event and returns false; with invulnerability
\* exactly 0 the first call is accepted (returns true).
C3_InvulnerabilityGate ==
    [][HitPassStep =>
         /\ player.invulnerability > 0 =>
               /\ stats' = stats
               /\ player'.invulnerability = player.invulnerability
               /\ nextState' = nextState
               /\ Count(out', IsHitCue) = 0
               /\ Count(out', IsLifeLost) = 0
               /\ Len(ret') = OverlapCount
               /\ \A i \in DOMAIN ret' : ~ret'[i]
               /\ despawns' = despawns
         /\ (player.invulnerability = 0 /\ OverlapCount > 0) =>
               ret' = <<TRUE>>]_vars

\* a pass ran into the player's invulnerability and its call was ignored
C3_Witness ==
    /\ last \in HitPasses
    /\ player.invulnerability > 0
    /\ Len(ret) > 0
    /\ ~ret[1]

\* C4: an accepted hit that leaves health above 0 subtracts max(damage, 1)
\* from health, leaves lives unchanged, sets invulnerability to the post-hit
\* window of 1.6 s and sends exactly one hit cue and no life-lost event.
C4_HitAboveZero ==
    [][AcceptedHit =>
         \A d \in StruckDamage :
            stats.health > Max(d, 1) =>
               /\ stats'.health = stats.health - Max(d, 1)
               /\ stats'.lives = stats.lives
               /\ stats'.max_health = stats.max_health
               /\ player'.invulnerability = (16 * UnitsPerSecond) \div 10
               /\ Count(out', IsHitCue) = 1
               /\ Count(out', IsLifeLost) = 0
               /\ nextState' = nextState]_vars

\* health 5, lives 3 and one accepted hit of damage 2 so far: health 3, lives 3
C4_Witness ==
    /\ last \in HitPasses
    /\ ret = <<TRUE>>
    /\ Cardinality(despawns) = 1
    /\ \/ \E i \in DOMAIN enemies : enemies[i].id \in despawns /\ enemies[i].damage = 2
       \/ \E i \in DOMAIN shots : shots[i].id \in despawns /\ shots[i].damage = 2
    /\ stats.health = 3
    /\ stats.lives = 3
    /\ player.invulnerability = (16 * UnitsPerSecond) \div 10

\* C5: an accepted hit that brings health to 0 while lives > 1 takes exactly
\* one life, refills health to max_health, sets invulnerability to the
\* post-hit window, sends exactly one life-lost event and does not request
\* game over.
C5_LifeLost ==
    [][AcceptedHit =>
         \A d \in StruckDamage :
            (stats.health <= Max(d, 1) /\ stats.lives > 1) =>
               /\ stats'.lives = stats.lives - 1
               /\ stats'.health = stats.max_health
               /\ player'.invulnerability = (16 * UnitsPerSecond) \div 10
               /\ Count(out', IsLifeLost) = 1
               /\ Count(out', IsHitCue) = 1
               /\ Count(out', IsGameOverRequest) = 0
               /\ nextState' = nextState]_vars

\* a life was just lost: the hull is full again and a life-lost event is out
C5_Witness ==
    /\ last \in HitPasses
    /\ ret = <<TRUE>>
    /\ Count(out, IsLifeLost) = 1
    /\ stats.lives = 2
    /\ stats.health = stats.max_health

\* C6: a hit that empties the hull on the last life (lives = 1)
\* sets lives and invulnerability to 0, sends no life-lost event and
\* requests GameOver, and game over is requested in no other situation.
C6_GameOverOnlyOnLastLife ==
    [][HitPassStep =>
         /\ AcceptedHit =>
              \A d \in StruckDamage :
                 (stats.health <= Max(d, 1) /\ stats.lives = 1) =>
                    /\ stats'.lives = 0
                    /\ player'.invulnerability = 0
                    /\ Count(out', IsLifeLost) = 0
                    /\ Count(out', IsGameOverRequest) = 1
                    /\ nextState' = "GameOver"
         /\ Count(out', IsGameOverRequest) > 0 =>
              /\ AcceptedHit
              /\ stats.lives = 1
              /\ \A d \in StruckDamage : stats.health <= Max(d, 1)]_vars

\* C7: health stays within 0..max_health, lives within 0..max_lives and
\* invulnerability is never negative; health is 0 only when lives is 0 and a
\* game-over transition has been requested.
C7_StatsInRange ==
    /\ stats.health \in 0..stats.max_health
    /\ stats.lives \in 0..stats.max_lives
    /\ player.invulnerability >= 0
    /\ stats.health = 0 => (stats.lives = 0 /\ gameOverRequested)

\* a tick ended with the hull empty and no life left
C7_Witness ==
    /\ last = "end_tick"
    /\ stats.health = 0
    /\ stats.lives = 0
    /\ gameOverRequested

\* ------------------------------------------------ the end of an encounter
IsUiSelect(e) == e.type = "AudioCue" /\ e.cue = "UiSelect"
\* the boss spawned by trigger_boss_spawn is still a queued command
BossPending == \E i \in DOMAIN spawns :
                  spawns[i].what = "enemy" /\ HasControl(spawns[i].entity)
EncounterCleared == bossState.active /\ ~bossState'.active

\* C11: the encounter is cleared only by boss_health_tracker, only when the
\* boss spawned for it is neither alive nor still waiting to be spawned
\* (it has existed and is gone), and the clearing releases the director,
\* commits the next level, raises the threshold by 2600 and sends one
\* UI-select cue.
C11_ClearedAfterBossGone ==
    [][EncounterCleared =>
         /\ last' = "boss_health_tracker"
         /\ ~BossPending
         /\ BossIndices = {}
         /\ ~director'.boss_active
         /\ director'.level_index =
               (IF director.pending_level # NoLevel THEN director.pending_level
                ELSE (director.level_index + 1) % LevelCount(storyboard))
         /\ director'.wave_index = 0
         /\ bossState'.spawn_score = bossState.spawn_score + BossSpawnScoreStep
         /\ Count(out', IsUiSelect) = 1]_vars

\* --------------------------------------------------------- the threshold
RunStarted == appState = "Title" /\ appState' = "Playing"

\* C12: the boss spawn threshold is 2600 when a run starts (play entered
\* from the title, where the score was reset) and changes only when
\* boss_health_tracker ends an encounter, by +2600.
C12_ThresholdFollowsVictories ==
    [][/\ RunStarted => bossState'.spawn_score = BossSpawnScoreStep
       /\ bossState'.spawn_score # bossState.spawn_score =>
             /\ EncounterCleared
             /\ last' = "boss_health_tracker"
             /\ bossState'.spawn_score = bossState.spawn_score + BossSpawnScoreStep]_vars

\* ------------------------------------------------------ pause and resume
\* a step of the way Playing -> Paused -> Playing: the transition into
\* Paused, a step taken while paused, the transition back
PauseStep == \/ appState = "Playing" /\ appState' = "Paused"
             \/ appState = "Paused" /\ appState' = "Paused"
             \/ appState = "Paused" /\ appState' = "Playing"

\* C13: pausing freezes the simulation and resuming continues from where it
\* left off: no step of the way Playing -> Paused -> Playing changes the
\* player stats, the weapon state, the invulnerability, the WaveDirector,
\* the boss encounter or the enemies, projectiles and power-ups, so that
\* after the resume they are what they were at the moment of pausing.
C13_PauseKeepsState ==
    [][PauseStep =>
         /\ stats' = stats
         /\ weaponState' = weaponState
         /\ player'.invulnerability = player.invulnerability
         /\ director' = director
         /\ bossState' = bossState
         /\ enemies' = enemies
         /\ bullets' = bullets
         /\ shots' = shots
         /\ powerups' = powerups]_vars

\* --------------------------------------------------------- leaving play
\* C14: once the transition out of Playing (to Paused or GameOver) has
\* completed, no enemy or boss, no player projectile, no enemy projectile,
\* no power-up and no player entity exists, and none is waiting to be
\* spawned.
C14_NothingOutsidePlay ==
    appState \in {"Paused", "GameOver"} =>
        /\ enemies = <<>>
        /\ bullets = <<>>
        /\ shots = <<>>
        /\ powerups = <<>>
        /\ ~player.exists
        /\ spawns = <<>>

\* play was left for GameOver by a game in which bullets were fired and the
\* player was struck
C14_Witness ==
    /\ appState = "GameOver"
    /\ last = "state_transition"
    /\ gameOverRequested
    /\ fired > 0
    /\ enemies = <<>> /\ shots = <<>> /\ powerups = <<>>

\* ------------------------------------------------- the order within a tick
\* the stage of a system in the order spawn-request emission (1), enemy
\* materialisation and movement (2), enemy and boss fire (3), collision
\* resolution (4), cleanup (5); 0 for the systems the order does not name
Stage(sys) ==
    CASE sys \in {"drive_waves", "trigger_boss_spawn"} -> 1
      [] sys = "boss_movement_and_attacks" -> 3
      [] sys \in {"projectile_enemy_collisions", "player_enemy_collisions",
                  "enemy_projectile_player_collisions"} -> 4
      [] OTHER -> 0
SystemStep == ran' # ran /\ ran' = ran \cup {last'}

\* C15: within a tick the stages run in their order: when a system of a
\* stage runs, no system of a later stage has run in that tick.
C15_StagesInOrder ==
    [][SystemStep /\ Stage(last') > 0 =>
         \A sys \in ran : Stage(sys) <= Stage(last')]_vars

\* ------------------------------------------------------------ determinism
\* C16: two executions started from the same state and fed the same inputs
\* are in the same state after every tick (boss encounter, WaveDirector and
\* enemies are compared), whatever order the scheduler chooses among the
\* systems that are not explicitly ordered.
C16_SameStateAfterEveryTick ==
    (twin # NoTwin /\ sched = "fixed" /\ ran = {}) =>
        /\ bossState = twin.bossState
        /\ director = twin.director
        /\ enemies = twin.enemies

\* ------------------------------------------------------- the weapon state
\* position of a mode on the ladder Single .. Laser
ModeIndex(m) == CHOOSE i \in DOMAIN WeaponModes : WeaponModes[i] = m
\* the step is collect_powerups picking up a power-up of this kind
Picked(kind) ==
    /\ "collect_powerups" \in ran' \ ran
    /\ player.exists
    /\ FirstPickup(1) # 0
    /\ powerups[FirstPickup(1)].kind = kind

\* C17: the mode advances exactly one step per Spread pickup along
\* Single -> Double -> Spread3 -> Spread5 -> Laser and stays at Laser, it
\* changes in no other way and never moves backwards during a run (on any
\* step but the start of a run); a Spread pickup leaves fire_rate_level
\* alone and a Rapid pickup leaves the mode alone.
C17_ModeAdvancesBySpread ==
    [][/\ ~RunStarted =>
             ModeIndex(weaponState'.mode) >= ModeIndex(weaponState.mode)
       /\ Picked("Spread") =>
             /\ ModeIndex(weaponState'.mode) =
                   Min(ModeIndex(weaponState.mode) + 1, Len(WeaponModes))
             /\ weaponState'.fire_rate_level = weaponState.fire_rate_level
       /\ Picked("Rapid") => weaponState'.mode = weaponState.mode]_vars

\* C18: fire_rate_level is always within 0..5, never decreases during a run
\* (on any step but the start of a run), and a Rapid pickup raises it by
\* exactly 1 below 5 and leaves it at 5.
C18_FireRateLevelCapped ==
    [][/\ weaponState'.fire_rate_level \in 0..5
       /\ ~RunStarted =>
             weaponState'.fire_rate_level >= weaponState.fire_rate_level
       /\ Picked("Rapid") =>
             weaponState'.fire_rate_level =
                IF weaponState.fire_rate_level < 5
                THEN weaponState.fire_rate_level + 1 ELSE 5]_vars

\* ------------------------------------------------------ difficulty model
\* the delays of the waves of a storyboard
WaveDelays(sb) ==
    UNION {{sb[l].waves[w].delay_seconds : w \in DOMAIN sb[l].waves} :
              l \in DOMAIN sb}

\* C19: Easy/Normal/Hard map to spawn-interval factors 1.25/1.0/0.8,
\* enemy-health factors 0.9/1.0/1.15 and enemy-bullet-speed factors
\* 0.9/1.0/1.2 (in hundredths), the interval factor strictly decreasing and
\* the other two strictly increasing from Easy to Hard; the wave timer the
\* director runs is a wave delay multiplied by the interval factor of the
\* selected difficulty.
C19_DifficultyFactors ==
    /\ <<SpawnIntervalFactor("Easy"), SpawnIntervalFactor("Normal"),
         SpawnIntervalFactor("Hard")>> = <<125, 100, 80>>
    /\ <<EnemyHealthFactor("Easy"), EnemyHealthFactor("Normal"),
         EnemyHealthFactor("Hard")>> = <<90, 100, 115>>
    /\ <<EnemyBulletFactor("Easy"), EnemyBulletFactor("Normal"),
         EnemyBulletFactor("Hard")>> = <<90, 100, 120>>
    /\ SpawnIntervalFactor("Easy") > SpawnIntervalFactor("Normal")
    /\ SpawnIntervalFactor("Normal") > SpawnIntervalFactor("Hard")
    /\ EnemyHealthFactor("Easy") < EnemyHealthFactor("Normal")
    /\ EnemyHealthFactor("Normal") < EnemyHealthFactor("Hard")
    /\ EnemyBulletFactor("Easy") < EnemyBulletFactor("Normal")
    /\ EnemyBulletFactor("Normal") < EnemyBulletFactor("Hard")
    /\ LET f == CASE settings = "Easy" -> 125 [] settings = "Normal" -> 100
                   [] settings = "Hard" -> 80
       IN appState = "Playing" =>
             director.timer.duration \in
                {(dl * f) \div 100 : dl \in WaveDelays(storyboard)}

\* on Hard drive_waves has just fired a wave and set the timer for the next
\* one, half a second long, to 0.8 of it
C19_Witness ==
    /\ settings = "Hard"
    /\ last = "drive_waves"
    /\ Count(out, IsSpawnEnemy) > 0
    /\ director.timer.duration = ((UnitsPerSecond \div 2) * 80) \div 100

\* --------------------------------------------------- the built-in waves
\* the step is drive_waves firing wave w of level l (both counted from 0)
FiresWave(l, w) ==
    /\ "drive_waves" \in ran' \ ran
    /\ ~director.boss_active
    /\ director.level_index = l
    /\ director.wave_index = w
    /\ TimerTick(director.timer, FixedDelta).just_finished

\* C20: with the built-in storyboard, firing wave 0 of the first level sends
\* exactly 3 spawn requests, all of kind Grunt, at x = -360, 0, 360 and
\* y = 420, each with Straight movement whose speed is 160 multiplied by
\* the difficulty scale of the moment (the difficulty accumulator times the
\* enemy-health factor; speeds in 1/1000000).
C20_FirstWaveOfGrunts ==
    [][(storyboard = DefaultStoryboard /\ FiresWave(0, 0)) =>
          /\ Len(out') = 3
          /\ \A i \in 1..3 :
                /\ out'[i].type = "SpawnEnemy"
                /\ out'[i].kind = "Grunt"
                /\ out'[i].position = << <<-360, 0, 360>>[i], 420 >>
                /\ out'[i].movement.type = "Straight"
                /\ out'[i].movement.speed =
                      160 * (director.difficulty * EnemyHealthFactor(settings)) * 100]_vars

\* on Easy wave 0 has just been fired a second time, the accumulator six
\* steps above its start
C20_Witness ==
    /\ storyboard = DefaultStoryboard
    /\ settings = "Easy"
    /\ last = "drive_waves"
    /\ Len(out) = 3
    /\ out[1].kind = "Grunt"
    /\ director.wave_index = 1
    /\ director.difficulty = EnemyHealthFactor("Easy") + 7 * DifficultyStep

\* ------------------------------------------------- the director's reset
\* the step is a state transition into play
EntersPlay == appState # "Playing" /\ appState' = "Playing"

\* C21: on every entry into play the WaveDirector is reset: wave_index = 0,
\* difficulty accumulator = enemy-health factor of the current difficulty,
\* level_index = 0, pending_level = None, boss_active = false, and the timer
\* is restarted with, where level 0 has a first wave, the duration of that
\* wave's delay multiplied by the spawn-interval factor.
C21_DirectorResetOnEntry ==
    [][EntersPlay =>
         /\ director'.wave_index = 0
         /\ director'.difficulty = EnemyHealthFactor(settings')
         /\ director'.level_index = 0
         /\ director'.pending_level = NoLevel
         /\ ~director'.boss_active
         /\ director'.timer.elapsed = 0
         /\ ~director'.timer.finished
         /\ Len(storyboard'[1].waves) > 0 =>
               director'.timer.duration =
                  (storyboard'[1].waves[1].delay_seconds
                     * SpawnIntervalFactor(settings')) \div 100]_vars

\* play was entered again on Hard after an encounter had been cleared and
\* the director had moved on to the next level
C21_Witness ==
    /\ appState = "Playing"
    /\ last = "state_transition"
    /\ settings = "Hard"
    /\ storyboard = SmallStoryboard
    /\ bossState.spawn_score = 2 * BossSpawnScoreStep
    /\ director.level_index = 0
    /\ director.timer.duration = (UnitsPerSecond * 80) \div 100

\* ------------------------------------------------------- the wave cycle
\* the waves of the director's current level (none if there is no such level)
CurrentWaves(dir, sb) ==
    IF HasLevel(sb, dir.level_index) THEN Level(sb, dir.level_index).waves ELSE <<>>
\* the step is drive_waves firing a wave
FiresAWave ==
    /\ Len(CurrentWaves(director, storyboard)) > 0
    /\ FiresWave(director.level_index, director.wave_index)
\* the enemy kinds a wave definition asks for, in order
WaveKinds(w) ==
    IF w.pattern = "lane" THEN [i \in 1..Len(w.lanes) |-> w.enemy]
    ELSE [i \in 1..Len(w.enemies) |-> w.enemies[i].enemy]
\* what a firing does to the events and to the indices
FiringRule ==
    FiresAWave =>
       LET waves == CurrentWaves(director, storyboard)
           n == Len(waves)
           w == waves[(director.wave_index % n) + 1]
       IN /\ Len(out') = Len(WaveKinds(w))
          /\ \A i \in 1..Len(out') : /\ out'[i].type = "SpawnEnemy"
                                      /\ out'[i].kind = WaveKinds(w)[i]
          /\ director'.wave_index = (director.wave_index + 1) % n
          /\ director'.pending_level =
                IF director'.wave_index = 0 /\ director.pending_level = NoLevel
                THEN (director.level_index + 1) % LevelCount(storyboard)
                ELSE director.pending_level

\* C22 as stated: each firing materialises the wave at wave_index mod
\* wave_count of the current level, sets wave_index to (wave_index + 1) mod
\* wave_count and, if that is 0 and no level is pending, pending_level to
\* (level_index + 1) mod level_count; wave_index < wave_count of the current
\* level in every state.
C22_WaveIndexBelowCount ==
    [][/\ FiringRule
       /\ director'.wave_index < Len(CurrentWaves(director', storyboard'))]_vars

\* C22, amended: the firing rule as stated; wave_index < wave_count in every
\* state whose current level has at least one wave, and in a level without
\* waves wave_index is 0 and drive_waves fires nothing.
C22_WaveIndexBelowCountOfWaves ==
    [][/\ FiringRule
       /\ IF Len(CurrentWaves(director', storyboard')) > 0
          THEN director'.wave_index < Len(CurrentWaves(director', storyboard'))
          ELSE director'.wave_index = 0
       /\ ("drive_waves" \in ran' \ ran
            /\ Len(CurrentWaves(director, storyboard)) = 0) => out' = <<>>]_vars

\* the last wave of level 0 of the two-level storyboard was just fired: the
\* index wrapped to 0 and level 1 became pending
C22_Witness ==
    /\ storyboard = SmallStoryboard
    /\ last = "drive_waves"
    /\ Count(out, IsSpawnEnemy) > 0
    /\ out[1].kind = "Tank"
    /\ director.level_index = 0
    /\ director.wave_index = 0
    /\ director.pending_level = 1

\* ------------------------------------------- the difficulty accumulator
\* the step is boss_health_tracker ending an encounter and advancing the level
AdvancesLevel ==
    /\ "boss_health_tracker" \in ran' \ ran
    /\ bossState.active
    /\ ~bossState'.active
    /\ LevelCount(storyboard) > 0

\* C23: the difficulty accumulator grows by exactly 0.05 (5 hundredths) per
\* wave fired, also when wave_index wraps to 0; it is set to the
\* enemy-health factor when the level advances and when play is entered;
\* no other step changes it.
C23_DifficultyAccumulator ==
    [][/\ FiresAWave => director'.difficulty = director.difficulty + 5
       /\ AdvancesLevel => director'.difficulty = EnemyHealthFactor(settings)
       /\ EntersPlay => director'.difficulty = EnemyHealthFactor(settings')
       /\ director'.difficulty # director.difficulty =>
             FiresAWave \/ AdvancesLevel \/ EntersPlay]_vars

\* the second wave of level 0 was just fired and wave_index wrapped to 0:
\* the accumulator is two steps above the enemy-health factor
C23_Witness ==
    /\ storyboard = SmallStoryboard
    /\ last = "drive_waves"
    /\ Count(out, IsSpawnEnemy) > 0
    /\ director.level_index = 0
    /\ director.wave_index = 0
    /\ director.difficulty = EnemyHealthFactor(settings) + 2 * DifficultyStep

\* ------------------------------------------------- loading the storyboard
\* the load of the storyboard file failed: the file is missing or its text
\* does not parse
LoadFailed == ~boot.file.present \/ boot.error.type = "Parse"

\* C24: if the storyboard file is missing or fails to parse, the storyboard
\* of the run is exactly the built-in default (one level of six waves),
\* start-up goes on without a fatal error (a warning is logged, play is
\* reached) and the waves are fired from it by the firing rule.
C24_FallbackToDefault ==
    [][(boot.observed /\ LoadFailed) =>
          /\ storyboard = DefaultStoryboard
          /\ storyboard' = DefaultStoryboard
          /\ Len(storyboard) = 1
          /\ Len(storyboard[1].waves) = 6
          /\ boot.warned
          /\ ~boot.fatal
          /\ appState' = "Playing"
          /\ FiringRule]_vars

\* the file names an unknown enemy kind, and the second wave of the
\* built-in storyboard was just fired
C24_Witness ==
    /\ boot.observed
    /\ boot.error.type = "Parse"
    /\ boot.error.cause.type = "unknown_variant"
    /\ last = "drive_waves"
    /\ Len(out) = 3
    /\ out[1].kind = "Sine"
    /\ director.wave_index = 2

\* the file is well-formed and a kind string of it is not an accepted one
HasUnknownKind(file) ==
    /\ file.present
    /\ file.json
    /\ \E l \in DOMAIN file.levels : \E w \in DOMAIN file.levels[l].waves :
          LET results == WaveKindResults(file.levels[l].waves[w])
          IN \E i \in DOMAIN results : ~results[i].ok

\* C25: a storyboard file with an unknown enemy or power-up kind gives a
\* parse error at load time that names the accepted values, the error is
\* fatal, and the program does not go on to run with a storyboard.
C25_UnknownKindIsFatal ==
    (boot.observed /\ HasUnknownKind(boot.file)) =>
        /\ boot.error.type = "Parse"
        /\ boot.error.cause.type = "unknown_variant"
        /\ boot.error.cause.expected \in {EnemyKindNames, PowerUpKindNames}
        /\ boot.fatal
        /\ appState # "Playing"

\* ------------------------------------------------------------ the shield
\* C26: collecting a Shield power-up sets invulnerability to
\* max(previous invulnerability, 3 s): it never shortens a longer window,
\* and applying it again to the result gives the same result.
C26_ShieldIsMax ==
    [][Picked("Shield") =>
          /\ player'.invulnerability = Max(player.invulnerability, 3 * UnitsPerSecond)
          /\ player'.invulnerability >= player.invulnerability
          /\ ApplyPowerup("Shield", weaponState', player'.invulnerability).inv
                = player'.invulnerability
          /\ weaponState' = weaponState]_vars

\* a Shield was just collected while a window longer than the shield's was
\* running, and the window is still longer
C26_Witness ==
    /\ last = "collect_powerups"
    /\ out = <<AudioCue("Pickup")>>
    /\ player.invulnerability > SHIELD_INVULNERABILITY
    /\ \E i \in DOMAIN powerups : /\ powerups[i].kind = "Shield"
                                  /\ powerups[i].id \in despawns
                                  /\ powerups[i].pos = player.pos

\* ------------------------------------------------------ the boss's volleys
IsEnemyFire(e) == e.type = "EnemyFire"
\* the step is boss_movement_and_attacks firing a volley
VolleyStep ==
    /\ "boss_movement_and_attacks" \in ran' \ ran
    /\ Cardinality(BossIndices) = 1
    /\ Count(out', IsEnemyFire) > 0
\* three shots fanned about straight down, spread thousandths of a radian
\* apart
DownFan(evs, spread) ==
    /\ Len(evs) = 3
    /\ \A i \in 1..3 : /\ IsEnemyFire(evs[i])
                       /\ DOMAIN evs[i].dir = {"down"}
                       /\ evs[i].dir.down = (i - 2) * spread
\* rays evenly spaced over the full circle
RadialBurst(evs, rays) ==
    /\ Len(evs) = rays
    /\ \A i \in 1..rays : /\ IsEnemyFire(evs[i])
                          /\ DOMAIN evs[i].dir = {"degrees"}
                          /\ evs[i].dir.degrees = (i - 1) * (360 \div rays)

\* C27: a volley has the shape of the phase the boss is in after the phase
\* update of the same run of boss_movement_and_attacks: Entry 3 shots in a
\* downward fan (0.178 rad apart), Second 3 shots in a tighter downward
\* burst (0.12 rad apart), Final 6 rays evenly spaced over 360 degrees; a
\* volley fired with the ratio health / 200 below 0.35 is the radial burst.
C27_VolleyShapeOfPhase ==
    [][VolleyStep =>
         /\ CASE BossAfter.control.phase = "Entry" -> DownFan(out', 178)
              [] BossAfter.control.phase = "Second" -> DownFan(out', 120)
              [] BossAfter.control.phase = "Final" -> RadialBurst(out', 6)
         /\ PhaseByRatio(BossBefore.health) = "Final" => RadialBurst(out', 6)]_vars

\* the volley fire_boss_pattern sends in a phase at the selected difficulty
VolleyOf(phase) == FireBossPattern(phase, BossSpawnPos, EnemyBulletFactor(settings))
\* the speed of the shots of a volley (all its shots have the same speed)
VolleySpeed(phase) == VolleyOf(phase)[1].speed

\* C28: from Entry to Second to Final the shot count of a volley does not
\* decrease, the bullet speed increases and the fire cooldown decreases.
C28_FireIntensityIncreases ==
    /\ Len(VolleyOf("Entry")) <= Len(VolleyOf("Second"))
    /\ Len(VolleyOf("Second")) <= Len(VolleyOf("Final"))
    /\ \A ph \in {"Entry", "Second", "Final"} :
          \A i \in DOMAIN VolleyOf(ph) : VolleyOf(ph)[i].speed = VolleySpeed(ph)
    /\ VolleySpeed("Entry") < VolleySpeed("Second")
    /\ VolleySpeed("Second") < VolleySpeed("Final")
    /\ FireCooldown("Entry") > FireCooldown("Second")
    /\ FireCooldown("Second") > FireCooldown("Final")

\* --------------------------------------------------- the end of the boss
\* boss_health_tracker ends the encounter as a victory: the threshold is
\* raised and the level advanced
VictoryStep == /\ EncounterCleared
               /\ bossState'.spawn_score > bossState.spawn_score
\* the bosses that player_enemy_collisions queues for removal in this step
RammedBosses == {i \in BossIndices : /\ "player_enemy_collisions" \in ran' \ ran
                                     /\ enemies[i].id \in despawns' \ despawns}

\* C29: whenever the encounter is cleared as a victory, the boss had been
\* brought to health <= 0 by player bullets and its score value had been
\* credited; and player_enemy_collisions never removes a boss whose health
\* is positive.
C29_VictoryOnlyByBullets ==
    [][/\ VictoryStep =>
             /\ Get(hits, bossState.entity) > 0
             /\ Get(credited, bossState.entity) = ScoreValue("Boss")
       /\ \A i \in RammedBosses : enemies[i].health <= 0]_vars

\* ------------------------------------------- what a hit on the player costs
\* the entities of this step's pass that overlap the player
Touching == {i \in DOMAIN Targets :
               Overlaps(player.pos, player.half, Targets[i].pos, Targets[i].half)}
\* the entities of this step's pass whose despawn the step queued
Consumed == {i \in DOMAIN Targets : Targets[i].id \in despawns' \ despawns}
\* the explosions and power-up requests this step sent
Requests == {k \in DOMAIN out' : IsExplosion(out'[k]) \/ IsPowerUpRequest(out'[k])}

\* C30: a run of player_enemy_collisions or enemy_projectile_player_collisions
\* despawns an enemy or enemy projectile if and only if a hit was accepted,
\* and then exactly one, which overlaps the player; a run while the player
\* is invulnerable despawns nothing and sends no explosion and no power-up
\* request; each of the two passes runs at most once in a tick, so that a
\* tick consumes at most one enemy by contact and one projectile by impact.
C30_DespawnIffAccepted ==
    [][HitPassStep =>
         /\ last' \notin ran
         /\ AcceptedHit <=> Consumed # {}
         /\ Cardinality(Consumed) <= 1
         /\ Cardinality(despawns' \ despawns) = Cardinality(Consumed)
         /\ Consumed \subseteq Touching
         /\ ~AcceptedHit => Requests = {}
         /\ AcceptedHit => Requests # {}
         /\ player.invulnerability > 0 =>
               /\ Consumed = {}
               /\ Requests = {}
               /\ enemies' = enemies /\ shots' = shots]_vars

\* an enemy that carries a power-up lies on the player, who is invulnerable
\* after a first hit: the contact pass ran, its call was ignored and the
\* enemy is neither queued for despawn nor has anything been sent for it
C30_Witness ==
    /\ last = "player_enemy_collisions"
    /\ player.invulnerability > 0
    /\ Len(ret) > 0 /\ ~ret[Len(ret)]
    /\ out = <<>>
    /\ \E i \in DOMAIN enemies :
          /\ enemies[i].pos = player.pos
          /\ enemies[i].drop # NoDrop
          /\ enemies[i].id \notin despawns

\* ------------------------------------------------- one bullet, one enemy
\* the enemies bullet b overlaps
Touched(b) == {i \in DOMAIN enemies :
                 Overlaps(enemies[i].pos, enemies[i].half, bullets[b].pos, bullets[b].half)}
\* the bullets that take a point of health from enemy i: those whose first
\* overlapping enemy in query order is i
Strikers(i) == {b \in DOMAIN bullets : i \in Touched(b) /\ \A j \in Touched(b) : i <= j}

\* C31: in a run of projectile_enemy_collisions every bullet is matched to
\* at most one enemy, the first it overlaps in query order; a matched
\* bullet is queued for despawn and takes one point of health from that
\* enemy and from no other; a bullet that overlaps no enemy is not queued
\* and no bullet is changed.
C31_OneEnemyPerBullet ==
    [][BulletPassStep =>
         /\ bullets' = bullets
         /\ Len(enemies') = Len(enemies)
         /\ \A b \in DOMAIN bullets :
               /\ Cardinality({i \in DOMAIN enemies : b \in Strikers(i)}) <= 1
               /\ Touched(b) # {} => bullets[b].id \in despawns'
               /\ Touched(b) = {} => bullets[b].id \notin despawns' \ despawns
         /\ \A i \in DOMAIN enemies :
               enemies[i].health - enemies'[i].health = Cardinality(Strikers(i))]_vars

\* two enemies in one cell and a bullet in that cell: the pass ran, the
\* bullet is queued for despawn, the first enemy took the hit, the second
\* took none
C31_Witness ==
    /\ last = "projectile_enemy_collisions"
    /\ Len(enemies) = 2
    /\ enemies[1].pos = enemies[2].pos
    /\ Get(hits, enemies[1].id) = 1
    /\ Get(hits, enemies[2].id) = 0
    /\ enemies[2].health = enemies[2].h0
    /\ \E b \in DOMAIN bullets : /\ bullets[b].pos = enemies[1].pos
                                 /\ bullets[b].id \in despawns

\* ------------------------------------------------------------ lane waves
\* the requests of evs that carry a power-up
WithDrop(evs) == {i \in DOMAIN evs : evs[i].powerup # NoDrop}

\* C32: firing a lane wave sends exactly one spawn request per lane, in lane
\* order, at (lane x, TOP_Y + y_offset); the configured power-up is on the
\* request of the lane whose index is powerup_lane_index and on no other;
\* with powerup_lane_index absent or out of range, or with no power-up
\* configured, no request carries a drop.
C32_OneRequestPerLane ==
    [][FiresAWave =>
         LET waves == CurrentWaves(director, storyboard)
             w == waves[(director.wave_index % Len(waves)) + 1]
         IN w.pattern = "lane" =>
              /\ Len(out') = Len(w.lanes)
              /\ \A i \in DOMAIN out' :
                    /\ out'[i].type = "SpawnEnemy"
                    /\ out'[i].kind = w.enemy
                    /\ out'[i].position = <<w.lanes[i], TOP_Y + w.y_offset>>
              /\ WithDrop(out') \subseteq {w.powerup_lane_index + 1}
              /\ \A i \in WithDrop(out') : out'[i].powerup = w.powerup
              /\ (w.powerup # NoDrop /\ w.powerup_lane_index \in 0..(Len(w.lanes) - 1))
                    => WithDrop(out') = {w.powerup_lane_index + 1}
              /\ (w.powerup = NoDrop \/ w.powerup_lane_index = NoLevel
                     \/ w.powerup_lane_index >= Len(w.lanes))
                    => WithDrop(out') = {}]_vars

\* a wave of three lanes with the power-up on the middle one has fired below
\* the top line: three requests, the second alone with the drop
C32_Witness ==
    /\ last = "drive_waves"
    /\ Len(out) = 3
    /\ WithDrop(out) = {2}
    /\ out[2].powerup = "Rapid"
    /\ out[1].position = <<-360, TOP_Y + 60>>
    /\ out[3].position = <<0, TOP_Y + 60>>

\* a wave whose power-up lane index is past its last lane has fired: no
\* request carries the configured power-up
C32_WitnessOutOfRange ==
    /\ last = "drive_waves"
    /\ Len(out) = 2
    /\ WithDrop(out) = {}
    /\ storyboard[1].waves[1].powerup = "Rapid"
    /\ storyboard[1].waves[1].powerup_lane_index = 2

\* --------------------------------------------------------- the wave timer
\* the timer set_timer_for_next_wave leaves for the wave at wave_index of
\* the director's level: that wave's delay times the spawn-interval factor
OwnTimer(dir, sb, d) ==
    NewTimer((CurrentWaves(dir, sb)[dir.wave_index + 1].delay_seconds
                * SpawnIntervalFactor(d)) \div 100)
\* the director is at a wave
AtAWave(dir, sb) == dir.wave_index < Len(CurrentWaves(dir, sb))

\* C33: after a wave fires, after a level advance and after the reset on
\* entering play the timer is restarted with duration = delay_seconds of
\* the wave now at wave_index in the current level x spawn-interval factor;
\* the wait that ends in the firing of a wave is that wave's own delay;
\* drive_waves sends spawn requests only when the timer expires and then
\* those of exactly one wave.
C33_TimerOfNextWave ==
    [][/\ ((FiresAWave \/ AdvancesLevel \/ EntersPlay) /\ AtAWave(director', storyboard'))
            => director'.timer = OwnTimer(director', storyboard', settings')
       /\ FiresAWave =>
             LET waves == CurrentWaves(director, storyboard)
                 w == waves[(director.wave_index % Len(waves)) + 1]
             IN /\ director.timer.duration =
                      (w.delay_seconds * SpawnIntervalFactor(settings)) \div 100
                /\ out' = SpawnWaveFromDefinition(
                             w, director.difficulty * EnemyHealthFactor(settings))
                /\ ~director'.timer.finished /\ director'.timer.elapsed = 0
       /\ ("drive_waves" \in ran' \ ran /\ out' # <<>>) => FiresAWave]_vars

\* the first wave of level 0 (delay 1 s) has just fired on Easy: the timer
\* is restarted with the delay of the second wave (0.5 s) times 1.25
C33_Witness ==
    /\ storyboard = SmallStoryboard
    /\ settings = "Easy"
    /\ last = "drive_waves"
    /\ Count(out, IsSpawnEnemy) = 2
    /\ director.level_index = 0
    /\ director.wave_index = 1
    /\ director.timer = NewTimer(((UnitsPerSecond \div 2) * SpawnIntervalFactor("Easy")) \div 100)

\* ------------------------------------------------------ the level index
\* the step is boss_health_tracker ending an encounter whose boss has been
\* in the world and is gone
BossDefeated == AdvancesLevel /\ BossIndices = {} /\ ~BossPending

\* C34: level_index changes only at a boss defeat and on entering play; the
\* end of an encounter sets it to (level_index + 1) mod level_count whether
\* or not a level is pending, sets wave_index to 0, clears pending_level and
\* restarts the timer; firing the last wave of a level (wave_index wraps to
\* 0) leaves level_index unchanged.
C34_LevelIndexFrame ==
    [][/\ director'.level_index # director.level_index =>
             BossDefeated \/ EntersPlay
       /\ AdvancesLevel =>
             /\ director'.level_index =
                   (director.level_index + 1) % LevelCount(storyboard)
             /\ director'.wave_index = 0
             /\ director'.pending_level = NoLevel
             /\ director'.timer.elapsed = 0
             /\ ~director'.timer.finished
       /\ (FiresAWave /\ director'.wave_index = 0) =>
             director'.level_index = director.level_index]_vars

\* ---------------------------------------------------- one boss, engaged
\* C35: at most one boss entity exists at any time, and whenever a boss
\* entity exists the encounter is active (BossState.active and
\* WaveDirector.boss_active) with max_health = 200.
C35_OneBossEngaged ==
    /\ Cardinality(BossIndices) <= 1
    /\ BossIndices # {} =>
          /\ bossState.active
          /\ director.boss_active
          /\ bossState.max_health = BossMaxHealth

\* ------------------------------------------------ the end of a projectile
\* the projectiles of both sides
Projectiles == {bullets[i] : i \in DOMAIN bullets} \cup {shots[i] : i \in DOMAIN shots}
\* the ids a projectile can have
ProjectileIds == 1..(MaxBullets + MaxShots)
\* the projectile with this id is in the world
InFlight(id) == \E p \in Projectiles : p.id = id
\* between two ticks every projectile has been advanced in fewer ticks than
\* its lifetime takes, and none is beyond the bound of its side
WithinLifetime ==
    ran = {} =>
       /\ \A p \in Projectiles : p.age < CeilDiv(p.l0, FixedDelta)
       /\ \A i \in DOMAIN bullets : bullets[i].pos[2] <= MaxCoord
       /\ \A i \in DOMAIN shots : shots[i].pos[2] >= 0

\* C36: every projectile is eventually destroyed: a player or enemy
\* projectile spawned with lifetime L no longer exists after at most
\* ceil(L / tick length) ticks of play, whatever its velocity, and earlier
\* if it leaves the playfield (player shots above the top bound, enemy
\* shots below the bottom bound).
C36_ProjectilesExpire ==
    /\ []WithinLifetime
    /\ \A id \in ProjectileIds : InFlight(id) ~> ~InFlight(id)

\* an enemy shot that flies sideways and never reaches the bottom bound is
\* in its last tick but one: 5 of the 6 ticks its 3.0 s allow are over
C36_Witness ==
    /\ ran = {}
    /\ \E i \in DOMAIN shots :
          /\ shots[i].velocity = <<1, 0>>
          /\ shots[i].age = CeilDiv(EnemyShotLifetime, FixedDelta) - 1
          /\ shots[i].lifetime > 0
          /\ shots[i].lifetime <= FixedDelta

\* ------------------------------------------------- what changes the score
\* this step's bullet pass brought an enemy to health <= 0
BulletKill == /\ BulletPassStep
              /\ \E i \in DOMAIN enemies : /\ enemies'[i].health <= 0
                                            /\ enemies'[i].health < enemies[i].health
\* the Title state is entered
EntersTitle == appState # "Title" /\ appState' = "Title"
\* play is left: the teardown of OnExit(Playing)
LeavesPlay == appState = "Playing" /\ appState' # "Playing"
\* this step is a run of the system
RunOf(sys) == sys \in ran' \ ran

\* C37: the score changes only when a player bullet reduces an enemy's
\* health to <= 0 (it grows) and on entering Title (it is reset to 0);
\* cleanup_offscreen_enemies removes the enemies below the bottom bound
\* with no score credited and no explosion or power-up request; enemies
\* removed by ramming the player or by the teardown credit no score; the
\* score never decreases during a run.
C37_ScoreOnlyByBullets ==
    [][/\ score' # score =>
             \/ BulletKill /\ score' > score
             \/ EntersTitle /\ score' = 0
       /\ score' < score => EntersTitle
       /\ RunOf("cleanup_offscreen_enemies") =>
             /\ score' = score /\ credited' = credited
             /\ out' = <<>>
             /\ \A i \in DOMAIN enemies :
                   enemies[i].id \in despawns' \ despawns <=> 
                      (enemies[i].pos[2] < 0 /\ enemies[i].id \notin despawns)
       /\ RunOf("player_enemy_collisions") =>
             score' = score /\ credited' = credited
       /\ (LeavesPlay /\ ~EntersTitle) =>
             score' = score /\ credited' = credited]_vars

\* an enemy that carried a power-up has passed the bottom bound unharmed and
\* the cleanup has queued its despawn: nothing was credited for it, nothing
\* sent, while the score stands at what a bullet earned before
C37_Witness ==
    /\ last = "cleanup_offscreen_enemies"
    /\ out = <<>>
    /\ score = ScoreValue("Sine")
    /\ \E i \in DOMAIN enemies :
          /\ enemies[i].pos[2] < 0
          /\ enemies[i].health > 0
          /\ enemies[i].drop # NoDrop
          /\ enemies[i].id \in despawns
          /\ Get(credited, enemies[i].id) = 0

\* --------------------------------------------- one power-up for one enemy
\* the power-up requests in evs sent for the entity id
DropsFor(evs, id) == {k \in SentFor(evs, id) : IsPowerUpRequest(evs[k])}

C38_OneDropPerPass ==
    [][BulletPassStep =>
         \A i \in DOMAIN enemies :
            Cardinality(DropsFor(out', enemies[i].id)) <= 1]_vars

\* the same across two systems of a tick: an enemy whose removal a system
\* has queued draws no request from the next one
C38_OneDropPerTick ==
    [][SystemStep =>
         \A i \in DOMAIN enemies :
            enemies[i].id \in despawns => DropsFor(out', enemies[i].id) = {}]_vars

\* -------------------------------------------- requests become enemies once
\* the spawn commands queued by this step
NewCommands == SubSeq(spawns', Len(spawns) + 1, Len(spawns'))
\* the enemy-spawn requests not yet read
Unread == EventsUnread(spawnEvents)
\* a run of spawn_enemies_from_events spawns one enemy for every request not
\* yet read, in the order sent, and leaves none unread
ReadsEachOnce ==
    RunOf("spawn_enemies_from_events") =>
       /\ Len(NewCommands) = Len(Unread)
       /\ \A i \in 1..Len(Unread) :
             /\ NewCommands[i].what = "enemy"
             /\ NewCommands[i].entity.kind = Unread[i].kind
             /\ NewCommands[i].entity.pos = Unread[i].position
       /\ EventsUnread(spawnEvents') = <<>>
\* spawn commands for enemies come from requests only, and a request once
\* read is not read again
OnlyFromRequests ==
    /\ ~RunOf("spawn_enemies_from_events") => (spawns' = <<>> \/ spawns' = spawns)
    /\ ~RunOf("drive_waves") => Len(EventsUnread(spawnEvents')) <= Len(Unread)
\* by the end of the tick after the one it was sent in a request has been
\* read
ReadByNextTick ==
    last' = "end_tick" => \A i \in DOMAIN spawnEvents : spawnEvents[i].old => spawnEvents[i].read
\* no request is lost unread, and none waits beyond the following tick:
\* a request unread is still there after the step, and play is not left
\* with a request unread
NoneDropped ==
    /\ ~RunOf("spawn_enemies_from_events") =>
          Len(EventsUnread(spawnEvents')) >= Len(Unread)
    /\ LeavesPlay => Unread = <<>>

\* C39: every queued enemy-spawn request is consumed exactly once, in the
\* order sent, and materialises exactly one enemy in the tick it was sent
\* in or the following one; no request is dropped or materialised twice.
C39_RequestsConsumedOnce ==
    [][ReadsEachOnce /\ OnlyFromRequests /\ ReadByNextTick /\ NoneDropped]_vars

\* the part of it that holds: what a run of the spawner does, and that
\* within play a request is read by the end of the following tick
C39_WithinPlay ==
    [][ReadsEachOnce /\ OnlyFromRequests /\ ReadByNextTick]_vars

\* ------------------------------------------- storyboards with nothing in them
\* the storyboard has no levels, or the director's level has no waves
NoWaves(dir, sb) == CurrentWaves(dir, sb) = <<>>
\* the base interval scaled by the spawn-interval factor
BaseTimer == NewTimer((BASE_INTERVAL * SpawnIntervalFactor(settings)) \div 100)
\* this step is boss_health_tracker clearing the encounter, which calls
\* advance_level
CallsAdvanceLevel == RunOf("boss_health_tracker") /\ bossState.active /\ ~bossState'.active
\* what the call leaves of the director when advance_level does nothing
OnlyCleared == [director EXCEPT !.boss_active = FALSE]
\* a run of drive_waves with nothing to fire: the director is left as it
\* was, no request is sent
DriveWavesIdle ==
    (RunOf("drive_waves") /\ NoWaves(director, storyboard)) =>
       /\ director' = director
       /\ out' = <<>>
       /\ spawnEvents' = spawnEvents
\* a wave is fired and a level index computed only with a wave count and
\* a level count above 0
ModuliPositive ==
    /\ FiresAWave => Len(CurrentWaves(director, storyboard)) > 0
    /\ (RunOf("drive_waves") \/ CallsAdvanceLevel) /\ director'.level_index # director.level_index
          => LevelCount(storyboard) > 0
\* with nothing to fire the timer is the base interval x the factor
TimerFallsBack ==
    NoWaves(director', storyboard') =>
       /\ director'.timer.duration = BaseTimer.duration
       /\ (EntersPlay \/ (CallsAdvanceLevel /\ LevelCount(storyboard) > 0))
             => director'.timer = BaseTimer

C40_WitnessNoLevels ==
    /\ last = "drive_waves"
    /\ storyboard = EmptyStoryboard
    /\ bossState.spawn_score > BossSpawnScoreStep
    /\ director.timer = BaseTimer

====
